---- MODULE Spec2Model ----
(***************************************************************************)
(* A model of the volumetric Cube field of charges-tools:                  *)
(*   chargetools/grids.py     Cube (parsing, meshgrid, arithmetic)         *)
(*   charges/cube.py          the older Cube class (no field_type)         *)
(*   chargetools/entities.py  Molecule, MoleculeWithCharge.reproduce_cube  *)
(*                                                                         *)
(* Python objects live in `store` and are held by reference (an index into *)
(* store), as in Python; `cubes` holds the Cube instances created so far,  *)
(* each a record of references.  Floating point numbers are modelled by    *)
(* integers (an exactly representable subset of the doubles); potentials   *)
(* q / sqrt(d2) are modelled exactly, see Exact potentials below.  `disk`  *)
(* holds the files written by Cube.save, by path.                          *)
(***************************************************************************)
EXTENDS Integers, Sequences, FiniteSets, TLC

VARIABLES store, cubes, prov, last, disk

vars == <<store, cubes, prov, last, disk>>

(***************************************************************************)
(* Bounds of the model                                                     *)
(***************************************************************************)
\* Cube instances per run (parsed or produced by an operation).
MaxCubes == 3
\* Largest voxel count along x and along y of the grids of SpecGrid.
MaxN == 3
\* Largest voxel count along z of the grids of SpecGrid.
MaxNz == 2
\* Template cubes parsed per run of SpecGrid.
MaxTemplates == 1
\* Cubes derived from the templates (by reproduce_cube or error_cube) per run
\* of SpecGrid.
MaxDerived == 1
\* Input files parsed per run of SpecFile, and written files parsed per run.
MaxParsed == 1
MaxReparsed == 1

(***************************************************************************)
(* Small arithmetic helpers                                                *)
(***************************************************************************)
Abs(n) == IF n < 0 THEN -n ELSE n

RECURSIVE Prod(_)
\* numpy: the number of elements of an array of this shape.
Prod(shape) == IF shape = <<>> THEN 1 ELSE Head(shape) * Prod(Tail(shape))

RECURSIVE IntPow(_, _)
\* numpy float power for integer base and non-negative integer exponent
\* (0 ** 0 is 1).
IntPow(a, b) == IF b <= 0 THEN 1 ELSE a * IntPow(a, b - 1)

RECURSIVE Unravel(_, _)
\* numpy.unravel_index, C order, 0-based: the multi-index of flat index m.
Unravel(m, shape) ==
  IF shape = <<>> THEN <<>>
  ELSE LET inner == Prod(Tail(shape))
       IN <<m \div inner>> \o Unravel(m % inner, Tail(shape))

RECURSIVE Ravel(_, _)
\* numpy.ravel_multi_index, C order, 0-based.
Ravel(idx, shape) ==
  IF shape = <<>> THEN 0
  ELSE Head(idx) * Prod(Tail(shape)) + Ravel(Tail(idx), Tail(shape))

(***************************************************************************)
(* Python objects                                                          *)
(***************************************************************************)
NoneObj == [tag |-> "NoneType"]
StrObj(s) == [tag |-> "str", s |-> s]
\* numpy.ndarray: a shape and the elements in C (row-major) order.
NdArray(shape, data) == [tag |-> "ndarray", shape |-> shape, data |-> data]
\* The OrderedDict of axes: the 1-D arrays in insertion order (keys AXES_NAMES).
AxesObj(arrays) == [tag |-> "OrderedDict", arrays |-> arrays]
\* entities.Atom
Atom(label, atomic_number, charge, position) ==
  [label |-> label, atomic_number |-> atomic_number,
   charge |-> charge, position |-> position]
\* entities.Molecule (bonds=None, name=None, charge=0 are not read by the model)
MoleculeObj(atoms) == [tag |-> "Molecule", atoms |-> atoms]

IsArray(o) == o.tag = "ndarray"

\* The reference of the None singleton and of the default argument
\* field_type="potential", both allocated before any Cube exists.
NoneRef == 1
PotentialRef == 2
\* A field a class does not have (charges.cube.Cube has no field_type).
NoAttr == 0

\* Cube.__init__ of chargetools.grids: eight parameters, bound positionally.
Cube__init__(file_name, field_type, values, axes, molecule, origins, unit_vectors, n_voxels) ==
  [cls |-> "chargetools.grids.Cube",
   from_file |-> file_name, field_type |-> field_type, values |-> values,
   axes |-> axes, molecule |-> molecule,
   origins |-> origins, unit_vectors |-> unit_vectors, n_voxels |-> n_voxels]

\* Cube.__init__ of charges.cube: seven parameters, no field_type.
LegacyCube__init__(file_name, values, axes, molecule, origins, unit_vectors, n_voxels) ==
  [cls |-> "charges.cube.Cube",
   from_file |-> file_name, field_type |-> NoAttr, values |-> values,
   axes |-> axes, molecule |-> molecule,
   origins |-> origins, unit_vectors |-> unit_vectors, n_voxels |-> n_voxels]

\* A positional call Cube(*args) from inside class cls: the arguments bind to
\* the parameters in order and the trailing keyword parameters default to None.
CubeCall(cls, args) ==
  LET arg(i) == IF i <= Len(args) THEN args[i] ELSE NoneRef
  IN IF cls = "chargetools.grids.Cube"
     THEN Cube__init__(arg(1), arg(2), arg(3), arg(4), arg(5),
                       arg(6), arg(7), arg(8))
     ELSE LegacyCube__init__(arg(1), arg(2), arg(3), arg(4),
                             arg(5), arg(6), arg(7))

\* Cube._grid_args (grid_args in charges.cube)
_grid_args(self) ==
  <<self.axes, self.molecule, self.origins, self.unit_vectors, self.n_voxels>>

(***************************************************************************)
(* Outcomes of a call: a returned Cube (with the store after the call's    *)
(* allocations), a returned plain value, or a raised exception.            *)
(***************************************************************************)
Ok(st, cube) == [kind |-> "ok", store |-> st, cube |-> cube]
Raise(exc, msg) == [kind |-> "raise", exc |-> exc, msg |-> msg]

ShapeMsg == "Cube files must have the same coordinates to be summed."

(***************************************************************************)
(* Exact potentials.  A sum of terms q / sqrt(d2) (q, d2 integers, d2 > 0) *)
(* is kept in the normal form  sum over squarefree f of (n/d) / sqrt(f):   *)
(* d2 = s*s*f gives q / sqrt(d2) = (q/s) / sqrt(f), and the square roots   *)
(* of distinct squarefree integers are linearly independent over the       *)
(* rationals, so two sums are equal as real numbers exactly when their     *)
(* normal forms are equal.  Division by a zero distance follows IEEE 754.  *)
(***************************************************************************)
RECURSIVE GCD(_, _)
GCD(a, b) == IF b = 0 THEN a ELSE GCD(b, a % b)

\* The fraction n/d (d > 0) in lowest terms.
RatNorm(n, d) == LET g == GCD(Abs(n), d) IN <<n \div g, d \div g>>

RatAdd(a, b) == RatNorm(a[1] * b[2] + b[1] * a[2], a[2] * b[2])

\* The largest s with s*s dividing d2.
SquarePart(d2) == CHOOSE s \in 1..d2 : d2 % (s * s) = 0 /\ \A t \in (s + 1)..d2 : d2 % (t * t) # 0

Finite(terms) == [kind |-> "fin", terms |-> terms]
NonFinite(kind) == [kind |-> kind, terms |-> {}]

\* q / sqrt(d2), as numpy divides a float by a float.
Quotient(q, d2) ==
  IF d2 = 0
  THEN IF q > 0 THEN NonFinite("inf") ELSE IF q < 0 THEN NonFinite("-inf") ELSE NonFinite("nan")
  ELSE IF q = 0 THEN Finite({})
  ELSE LET s == SquarePart(d2)
           r == RatNorm(q, s)
       IN Finite({<<d2 \div (s * s), r[1], r[2]>>})

Coef(terms, f) ==
  IF \E t \in terms : t[1] = f
  THEN LET t == CHOOSE u \in terms : u[1] = f IN <<t[2], t[3]>>
  ELSE <<0, 1>>

RealAdd(a, b) ==
  IF a.kind = "nan" \/ b.kind = "nan" THEN NonFinite("nan")
  ELSE IF a.kind # "fin" /\ b.kind # "fin"
  THEN IF a.kind = b.kind THEN a ELSE NonFinite("nan")
  ELSE IF a.kind # "fin" THEN a
  ELSE IF b.kind # "fin" THEN b
  ELSE LET fs == {t[1] : t \in a.terms \cup b.terms}
           sum(f) == RatAdd(Coef(a.terms, f), Coef(b.terms, f))
       IN Finite({<<f, sum(f)[1], sum(f)[2]>> : f \in {g \in fs : sum(g)[1] # 0}})

RECURSIVE RealSum(_)
\* numpy sum along an axis, left to right.
RealSum(xs) == IF xs = <<>> THEN Finite({}) ELSE RealAdd(Head(xs), RealSum(Tail(xs)))

\* The square of the Euclidean distance scipy's cdist takes the root of.
Dist2(p, q) ==
  LET sq(i) == (p[i] - q[i]) * (p[i] - q[i])
      RECURSIVE acc(_)
      acc(i) == IF i = 0 THEN 0 ELSE sq(i) + acc(i - 1)
  IN acc(Len(p))

\* -a
RealNeg(a) ==
  IF a.kind = "fin" THEN Finite({<<t[1], -t[2], t[3]>> : t \in a.terms})
  ELSE IF a.kind = "inf" THEN NonFinite("-inf")
  ELSE IF a.kind = "-inf" THEN NonFinite("inf")
  ELSE a

\* A numpy array whose elements are exact potentials (the quotients of
\* reproduce_cube); the other arrays of the model hold integers.
RealArray(shape, data) == [tag |-> "ndarray", shape |-> shape, data |-> data, exact |-> TRUE]

HoldsReals(arr) == "exact" \in DOMAIN arr

\* Element x of arr as an exact real.
Lift(arr, x) == IF HoldsReals(arr) THEN x ELSE Quotient(x, 1)

\* One element of a + b or a - b on exact reals.
RealElem(vop, a, b) ==
  CASE vop = "add" -> RealAdd(a, b)
    [] vop = "sub" -> RealAdd(a, RealNeg(b))

(***************************************************************************)
(* numpy elementwise arithmetic with broadcasting                          *)
(***************************************************************************)
\* One element of values + other, values - other, values * other, values ** other.
Elem(vop, a, b) ==
  CASE vop = "add" -> a + b
    [] vop = "sub" -> a - b
    [] vop = "mul" -> a * b
    [] vop = "pow" -> IntPow(a, b)

\* numpy broadcasting: shapes are aligned at their last axis and padded with 1.
PadLeft(shape, rank) ==
  [i \in 1..rank |->
     IF i <= rank - Len(shape) THEN 1 ELSE shape[i - (rank - Len(shape))]]

MaxRank(ls, rs) == IF Len(ls) >= Len(rs) THEN Len(ls) ELSE Len(rs)

Broadcastable(ls, rs) ==
  LET rank == MaxRank(ls, rs)
      l == PadLeft(ls, rank)
      r == PadLeft(rs, rank)
  IN \A i \in 1..rank : l[i] = r[i] \/ l[i] = 1 \/ r[i] = 1

BroadcastShape(ls, rs) ==
  LET rank == MaxRank(ls, rs)
      l == PadLeft(ls, rank)
      r == PadLeft(rs, rank)
  IN [i \in 1..rank |-> IF l[i] = 1 THEN r[i] ELSE l[i]]

\* The element of arr that the broadcast result's multi-index idx reads.
BroadcastPick(arr, idx) ==
  LET p == PadLeft(arr.shape, Len(idx))
      j == [i \in 1..Len(idx) |-> IF p[i] = 1 THEN 0 ELSE idx[i]]
  IN arr.data[Ravel(j, p) + 1]

\* left <op> right for a Python object left (the Cube's values attribute) and
\* an operand [kind |-> "scalar", v |-> n] or [kind |-> "ndarray", arr |-> a]:
\* a new array, or the exception Python raises.
NumpyBinary(vop, left, right) ==
  IF ~IsArray(left)
  THEN Raise("TypeError", "unsupported operand type(s)")
  ELSE IF right.kind = "scalar"
  THEN [kind |-> "ok",
        arr |-> NdArray(left.shape,
                        [m \in 1..Len(left.data) |-> Elem(vop, left.data[m], right.v)])]
  ELSE IF ~Broadcastable(left.shape, right.arr.shape)
  THEN Raise("ValueError", "operands could not be broadcast together")
  ELSE LET shape == BroadcastShape(left.shape, right.arr.shape)
           l(m) == BroadcastPick(left, Unravel(m - 1, shape))
           r(m) == BroadcastPick(right.arr, Unravel(m - 1, shape))
       IN IF HoldsReals(left) \/ HoldsReals(right.arr)
          THEN [kind |-> "ok",
                arr |-> RealArray(shape,
                          [m \in 1..Prod(shape) |->
                             RealElem(vop, Lift(left, l(m)), Lift(right.arr, r(m)))])]
          ELSE [kind |-> "ok",
                arr |-> NdArray(shape, [m \in 1..Prod(shape) |-> Elem(vop, l(m), r(m))])]

\* numpy.abs(values)
NumpyAbs(left) ==
  IF ~IsArray(left)
  THEN Raise("TypeError", "bad operand type for abs()")
  ELSE [kind |-> "ok",
        arr |-> NdArray(left.shape, [m \in 1..Len(left.data) |-> Abs(left.data[m])])]

(***************************************************************************)
(* Cube files.  A file is the record of what its lines hold:               *)
(*   name     the path                                                     *)
(*   origins  line 3, the three origin reals                               *)
(*   rows     lines 4-6: [n |-> voxel count, vec |-> the three reals]      *)
(*   atoms    the atom lines: [atomic_number, col2, position]              *)
(*   tokens   the whitespace-separated numbers after the atom lines        *)
(***************************************************************************)
CubeFile(name, origins, rows, atoms, tokens) ==
  [name |-> name, origins |-> origins, rows |-> rows, atoms |-> atoms, tokens |-> tokens]

RECURSIVE Flatten(_)
Flatten(seqs) == IF seqs = <<>> THEN <<>> ELSE Head(seqs) \o Flatten(Tail(seqs))

\* The numbers of a file are fixed-point: integers counted in units of 1/one,
\* where one is the integer that stands for 1.0.  The arithmetic and the grid
\* specifications use one = 1; the file specification uses seven decimals.

\* The components of one header row kept as unit vectors:
\* abs(scalar_length - 0.) >= 0.01, that is |c| >= one/100, and on integers
\* |c| >= ceiling(one/100).
KeptComponentsAt(one, vec) == SelectSeq(vec, LAMBDA c : Abs(c) >= (one + 99) \div 100)

\* With one = 1: |c| >= 1.
KeptComponents(vec) == KeptComponentsAt(1, vec)

\* Python's round to the nearest multiple of q > 0, ties to the even multiple.
RoundHalfEven(x, q) ==
  LET lo == (x \div q) * q
      rem == x - lo
  IN IF 2 * rem < q THEN lo
     ELSE IF 2 * rem > q THEN lo + q
     ELSE IF (x \div q) % 2 = 0 THEN lo ELSE lo + q

\* utils.int_if_close(floating_number, tolerance=0.0001): round(x, 0) when it
\* is within the tolerance of x (|r - x| <= one/10000, on integers
\* |r - x| <= floor(one/10000)), else x.
int_if_close_at(one, x) ==
  LET r == RoundHalfEven(x, one)
  IN IF Abs(r - x) <= one \div 10000 THEN r ELSE x

\* With one = 1 the number is its own nearest integer.
int_if_close(x) == int_if_close_at(1, x)

\* Molecule.from_cube_header: one Atom per atom line, labelled from 1, with
\* charge = second column - atomic number.
from_cube_header_at(one, header_lines) ==
  MoleculeObj([i \in 1..Len(header_lines) |->
                 Atom(i, header_lines[i].atomic_number,
                      int_if_close_at(one, header_lines[i].col2
                                             - header_lines[i].atomic_number * one),
                      header_lines[i].position)])

from_cube_header(header_lines) == from_cube_header_at(1, header_lines)

MinOf(S) == CHOOSE m \in S : \A n \in S : m <= n

\* The names of the axes, in order.
AXES_NAMES == <<"x", "y", "z">>

\* Variant of the axes that counts the grid points from 1.
AxesOfFromOne(origins, unit_vectors, n_voxels) ==
  LET k == MinOf({Len(AXES_NAMES), Len(origins), Len(unit_vectors), Len(n_voxels)})
  IN AxesObj([d \in 1..k |->
                [i \in 1..n_voxels[d] |-> i * unit_vectors[d] + origins[d]]])

\* The axes of from_cube_file: zip(AXES_NAMES, origins, unit_vectors, n_voxels)
\* stops at the shortest; each axis is arange(0, n) * unit_vector + origin.
AxesOf(origins, unit_vectors, n_voxels) ==
  LET k == MinOf({Len(AXES_NAMES), Len(origins), Len(unit_vectors), Len(n_voxels)})
  IN AxesObj([d \in 1..k |->
                [i \in 1..n_voxels[d] |-> (i - 1) * unit_vectors[d] + origins[d]]])

\* Variant of the header_only switch that reads the value block in any case.
ReadsValuesAlways(header_only) == TRUE

\* if header_only: np.empty(n_voxels); else: the value block is read.
ReadsValues(header_only) == ~header_only

\* Variant of reshape that accepts a block with tokens to spare.
ReshapableAtLeast(count, shape) == count >= Prod(shape)

\* ndarray.reshape(shape) of a flat array of count elements succeeds.
Reshapable(count, shape) == count = Prod(shape)

\* Cube.from_cube_file(file_name, base_molecule=None, header_only, field_type)
\* of class cls.  uninit is what numpy.empty happens to hold (header_only).
\* The objects are allocated in the order the code creates them.
from_cube_file_at(one, st, cls, file, header_only, uninit) ==
  LET origins == file.origins
      unit_vectors == Flatten([r \in 1..Len(file.rows) |-> KeptComponentsAt(one, file.rows[r].vec)])
      n_voxels == [r \in 1..Len(file.rows) |-> file.rows[r].n]
      base == Len(st)
      fileRef == base + 1
      originsRef == base + 2
      unitRef == base + 3
      nvoxRef == base + 4
      molRef == base + 5
      valuesRef == base + 6
      axesRef == base + 7
      values == IF ReadsValues(header_only) THEN NdArray(n_voxels, file.tokens)
                ELSE NdArray(n_voxels, uninit)
      st2 == st \o <<StrObj(file.name),
                     NdArray(<<Len(origins)>>, origins),
                     NdArray(<<Len(unit_vectors)>>, unit_vectors),
                     NdArray(<<Len(n_voxels)>>, n_voxels),
                     from_cube_header_at(one, file.atoms),
                     values,
                     AxesOf(origins, unit_vectors, n_voxels)>>
  IN IF ReadsValues(header_only) /\ ~Reshapable(Len(file.tokens), n_voxels)
     THEN Raise("ValueError", "cannot reshape array")
     ELSE IF cls = "chargetools.grids.Cube"
     THEN Ok(st2, CubeCall(cls, <<fileRef, PotentialRef, valuesRef, axesRef, molRef,
                                  originsRef, unitRef, nvoxRef>>))
     ELSE Ok(st2, CubeCall(cls, <<fileRef, valuesRef, axesRef, molRef,
                                  originsRef, unitRef, nvoxRef>>))

\* from_cube_file on a file whose numbers are counted in units of 1.
from_cube_file(st, cls, file, header_only, uninit) ==
  from_cube_file_at(1, st, cls, file, header_only, uninit)

(***************************************************************************)
(* Cube.assign_new_values_to and the arithmetic magic methods              *)
(***************************************************************************)
\* Variant of assign_new_values_to that passes origins and unit_vectors in each
\* other's place.
assign_new_values_swapped(cls, original_cube, new_values) ==
  IF cls = "chargetools.grids.Cube"
  THEN CubeCall(cls, <<original_cube.from_file, original_cube.field_type, new_values,
                       original_cube.axes, original_cube.molecule, original_cube.unit_vectors,
                       original_cube.origins, original_cube.n_voxels>>)
  ELSE CubeCall(cls, <<original_cube.from_file, new_values,
                       original_cube.axes, original_cube.molecule, original_cube.unit_vectors,
                       original_cube.origins, original_cube.n_voxels>>)

\* Cube.assign_new_values_to(original_cube, new_values) of class cls: no check
\* of the shape of new_values.
assign_new_values_to(cls, original_cube, new_values) ==
  IF cls = "chargetools.grids.Cube"
  THEN CubeCall(cls, <<original_cube.from_file, original_cube.field_type, new_values>>
                     \o _grid_args(original_cube))
  ELSE CubeCall(cls, <<original_cube.from_file, new_values>>
                     \o _grid_args(original_cube))

\* In-place variant (as self.values += other would do): the operand's own
\* array is overwritten and shared with the result.
AllocValuesInPlace(st, self, arr) ==
  [store |-> [st EXCEPT ![self.values] = arr], ref |-> self.values]

\* The array a binary numpy expression (or numpy.abs) evaluates to is a new
\* object: it is appended to the store.
AllocValues(st, self, arr) ==
  [store |-> Append(st, arr), ref |-> Len(st) + 1]

\* return Cube(self.from_file, <new values>, *args): two positional arguments
\* followed by the five of _grid_args.
ViaConstructor(st, self, arr) ==
  LET a == AllocValues(st, self, arr)
  IN Ok(a.store, CubeCall(self.cls, <<self.from_file, a.ref>> \o _grid_args(self)))

\* return self.assign_new_values_to(self, <new values>)
ViaAssign(st, self, arr) ==
  LET a == AllocValues(st, self, arr)
  IN Ok(a.store, assign_new_values_to(self.cls, self, a.ref))

Build(how, st, self, arr) ==
  IF how = "Cube" THEN ViaConstructor(st, self, arr) ELSE ViaAssign(st, self, arr)

\* Variant of the shape test that compares the number of voxels only.
ShapeMismatchBySize(a, b) == Prod(a.shape) # Prod(b.shape)

\* self.values.shape != other.values.shape
ShapeMismatch(a, b) == a.shape # b.shape

\* The body shared by __add__, __sub__, __mul__, __truediv__ and __pow__:
\* the isinstance dispatch on the right operand, the shape test for a Cube
\* operand, the numpy expression vop, and the way the result Cube is built.
\* other is [kind |-> "scalar", v], [kind |-> "ndarray", arr],
\* [kind |-> "Cube", cube] or [kind |-> "str"] (an unsupported type).
BinaryMethod(st, self, other, vop, how) ==
  IF other.kind \in {"scalar", "ndarray"}
  THEN LET r == NumpyBinary(vop, st[self.values], other)
       IN IF r.kind = "raise" THEN r ELSE Build(how, st, self, r.arr)
  ELSE IF other.kind = "Cube" /\ other.cube.cls = self.cls
  THEN IF ~IsArray(st[self.values]) \/ ~IsArray(st[other.cube.values])
       THEN Raise("AttributeError", "object has no attribute 'shape'")
       ELSE IF ShapeMismatch(st[self.values], st[other.cube.values])
       THEN Raise("AttributeError", ShapeMsg)
       ELSE LET r == NumpyBinary(vop, st[self.values],
                                 [kind |-> "ndarray", arr |-> st[other.cube.values]])
            IN IF r.kind = "raise" THEN r ELSE Build(how, st, self, r.arr)
  ELSE Raise("AttributeError", "")

__add__(st, self, other) == BinaryMethod(st, self, other, "add", "Cube")

\* Variant of __sub__ that builds its result as __add__ does.
__sub__ViaConstructor(st, self, other) == BinaryMethod(st, self, other, "sub", "Cube")

__sub__(st, self, other) == BinaryMethod(st, self, other, "sub", "assign_new_values_to")

__mul__(st, self, other) == BinaryMethod(st, self, other, "mul", "Cube")

\* Variant of __truediv__ that evaluates another expression than __mul__.
__truediv__Adding(st, self, other) == BinaryMethod(st, self, other, "add", "Cube")

\* __truediv__ evaluates self.values * other, as __mul__ does.
__truediv__(st, self, other) == BinaryMethod(st, self, other, "mul", "Cube")

__pow__(st, self, power) == BinaryMethod(st, self, power, "pow", "Cube")

__abs__(st, self) ==
  LET r == NumpyAbs(st[self.values])
  IN IF r.kind = "raise" THEN r ELSE ViaAssign(st, self, r.arr)

(***************************************************************************)
(* Coordinates: Cube.meshgrid, Cube.flat_coordinates                       *)
(***************************************************************************)
\* numpy.meshgrid(*xi) with its default indexing='xy': for two or more input
\* arrays the first two axes of every output are swapped, so the outputs have
\* shape (n2, n1, n3, ...); output t holds xi[t] along the axis it varies on.
XYAxis(t, k) == IF k >= 2 /\ t = 1 THEN 2 ELSE IF k >= 2 /\ t = 2 THEN 1 ELSE t

NumpyMeshgrid(xi) ==
  LET k == Len(xi)
      shape == [a \in 1..k |-> Len(xi[XYAxis(a, k)])]
  IN [t \in 1..k |->
        NdArray(shape,
                [m \in 1..Prod(shape) |-> xi[t][Unravel(m - 1, shape)[XYAxis(t, k)] + 1]])]

\* Cube.meshgrid: np.meshgrid(*list(self.axes.values()), sparse=False)
meshgrid(st, self) ==
  IF st[self.axes].tag # "OrderedDict"
  THEN Raise("AttributeError", "object has no attribute 'values'")
  ELSE [kind |-> "ok", value |-> NumpyMeshgrid(st[self.axes].arrays)]

\* Cube.flat_coordinates: np.vstack(np.array(meshgrid).reshape(len(axes), -1)).T:
\* row m holds element m (C order) of each meshgrid array.
flat_coordinates(st, self) ==
  LET g == meshgrid(st, self)
  IN IF g.kind = "raise" THEN g
     ELSE LET k == Len(g.value)
              n == IF k = 0 THEN 0 ELSE Len(g.value[1].data)
          IN [kind |-> "ok",
              value |-> [m \in 1..n |-> [t \in 1..k |-> g.value[t].data[m]]]]

(***************************************************************************)
(* MoleculeWithCharge.reproduce_cube                                       *)
(***************************************************************************)
\* reproduce_cube(self, template_cube) with the default Euclidean metric.
\* charges come from self, positions from template_cube.molecule; the
\* quotient charges / distances broadcasts a row of charges against the
\* (voxels x atoms) distance matrix.
reproduce_cube(st, self, template_cube) ==
  LET atomic_charges == [a \in 1..Len(self.atoms) |-> self.atoms[a].charge]
      mol == st[template_cube.molecule]
      fc == flat_coordinates(st, template_cube)
  IN IF mol.tag # "Molecule"
     THEN Raise("AttributeError", "object has no attribute 'list_of_atom_property'")
     ELSE IF fc.kind = "raise" THEN fc
     ELSE LET positions == [a \in 1..Len(mol.atoms) |-> mol.atoms[a].position]
              na == Len(positions)
              nc == Len(atomic_charges)
              width == IF nc = 1 THEN na ELSE nc
              potentials ==
                [m \in 1..Len(fc.value) |->
                   RealSum([a \in 1..width |->
                              Quotient(atomic_charges[IF nc = 1 THEN 1 ELSE a],
                                       Dist2(fc.value[m], positions[IF na = 1 THEN 1 ELSE a]))])]
              nvox == st[template_cube.n_voxels]
          IN IF na = 0 \/ \E m \in 1..Len(fc.value), a \in 1..na :
                              Len(fc.value[m]) # Len(positions[a])
             THEN Raise("ValueError", "XA and XB must have the same number of columns")
             ELSE IF ~(na = nc \/ na = 1 \/ nc = 1)
             THEN Raise("ValueError", "operands could not be broadcast together")
             ELSE IF ~IsArray(nvox) \/ Prod(IF IsArray(nvox) THEN nvox.data ELSE <<>>) # Len(potentials)
             THEN Raise("ValueError", "cannot reshape array")
             ELSE Ok(Append(st, RealArray(nvox.data, potentials)),
                     assign_new_values_to("chargetools.grids.Cube", template_cube, Len(st) + 1))

(***************************************************************************)
(* Cube.points_labelled_by_closest_atom, Cube.distance_to_closest_atom     *)
(***************************************************************************)
\* numpy argmin along a row, last occurrence of the minimum.
ArgMinLast(ds) ==
  CHOOSE a \in 1..Len(ds) :
    /\ \A b \in 1..Len(ds) : ds[a] <= ds[b]
    /\ \A b \in (a + 1)..Len(ds) : ds[b] > ds[a]

\* numpy argmin along a row: the index of the first occurrence of the minimum.
ArgMin(ds) ==
  CHOOSE a \in 1..Len(ds) :
    /\ \A b \in 1..Len(ds) : ds[a] <= ds[b]
    /\ \A b \in 1..(a - 1) : ds[b] > ds[a]

\* The first entry of a row.
RowFirst(ds) == ds[1]

\* numpy min along a row.
RowMin(ds) == MinOf({ds[a] : a \in 1..Len(ds)})

\* The distance sqrt(d2) as an exact real: d2 / sqrt(d2), and 0 for d2 = 0.
Root(d2) == IF d2 = 0 THEN Finite({}) ELSE Quotient(d2, d2)

\* The part both methods share: the atoms (all atoms when no descriptor is
\* passed; Molecule has no method select_descriptor), the flat coordinates,
\* cdist against the atom positions (compared by their squares) and the
\* shape n_voxels the reduced array is given.
ClosestAtomDistances(st, self, atom_descriptors) ==
  LET mol == st[self.molecule]
      fc == flat_coordinates(st, self)
      nvox == st[self.n_voxels]
  IN IF atom_descriptors # <<>>
     THEN Raise("AttributeError", "object has no attribute 'select_descriptor'")
     ELSE IF mol.tag # "Molecule"
     THEN Raise("AttributeError", "object has no attribute 'atoms'")
     ELSE IF fc.kind = "raise" THEN fc
     ELSE IF mol.atoms = <<>> \/ \E m \in 1..Len(fc.value), a \in 1..Len(mol.atoms) :
                                   Len(fc.value[m]) # Len(mol.atoms[a].position)
     THEN Raise("ValueError", "XA and XB must have the same number of columns")
     ELSE IF ~IsArray(nvox) \/ Prod(IF IsArray(nvox) THEN nvox.data ELSE <<>>) # Len(fc.value)
     THEN Raise("ValueError", "cannot reshape array")
     ELSE [kind |-> "ok",
           shape |-> nvox.data,
           rows |-> [m \in 1..Len(fc.value) |->
                       [a \in 1..Len(mol.atoms) |-> Dist2(fc.value[m], mol.atoms[a].position)]]]

\* Cube.points_labelled_by_closest_atom(*atom_descriptors): argmin along the
\* atoms, then atoms.__getitem__ on every index (0-based there, 1-based here).
points_labelled_by_closest_atom(st, self, atom_descriptors) ==
  LET d == ClosestAtomDistances(st, self, atom_descriptors)
  IN IF d.kind = "raise" THEN d
     ELSE [kind |-> "ok",
           value |-> NdArray(d.shape, [m \in 1..Len(d.rows) |->
                                         st[self.molecule].atoms[ArgMin(d.rows[m])]])]

\* Cube.distance_to_closest_atom(*atom_descriptors): min along the atoms.
distance_to_closest_atom(st, self, atom_descriptors) ==
  LET d == ClosestAtomDistances(st, self, atom_descriptors)
  IN IF d.kind = "raise" THEN d
     ELSE [kind |-> "ok",
           value |-> RealArray(d.shape, [m \in 1..Len(d.rows) |-> Root(RowMin(d.rows[m]))])]

(***************************************************************************)
(* Cube.filter_values, Cube.value_by_atom                                  *)
(***************************************************************************)
\* An element of the float array numpy.where returns: a number or NaN.
Float(x) == [nan |-> FALSE, v |-> x]
NaN == [nan |-> TRUE, v |-> 0]

\* A condition argument: a callable, a numpy array of dtype bool or int, a
\* Python bool, None, or a list of bools.  The elements of a boolean array and
\* of a list of bools are written 1 for True and 0 for False.
CallableCondition(f) == [kind |-> "callable", f |-> f]
ArrayCondition(dtype, arr) == [kind |-> "ndarray", dtype |-> dtype, arr |-> arr]
BoolCondition(b) == [kind |-> "bool", v |-> b]
NoneCondition == [kind |-> "None"]
ListCondition(items) == [kind |-> "list", items |-> items]

\* The callables: lambda v: v > 0 and lambda v: numpy.abs(v) >= 2.
CallResult(f, x) ==
  CASE f = "positive" -> IF x > 0 THEN 1 ELSE 0
    [] f = "abs_at_least_two" -> IF Abs(x) >= 2 THEN 1 ELSE 0

\* numpy.asarray(condition) as numpy.where takes it: the array, its dtype.
ConditionArray(condition, values) ==
  CASE condition.kind = "callable" ->
         [dtype |-> "bool",
          arr |-> NdArray(values.shape,
                          [m \in 1..Len(values.data) |-> CallResult(condition.f, values.data[m])])]
    [] condition.kind = "ndarray" -> [dtype |-> condition.dtype, arr |-> condition.arr]
    [] condition.kind = "bool" -> [dtype |-> "bool", arr |-> NdArray(<<>>, <<IF condition.v THEN 1 ELSE 0>>)]
    [] condition.kind = "None" -> [dtype |-> "bool", arr |-> NdArray(<<>>, <<0>>)]
    [] condition.kind = "list" ->
         [dtype |-> "bool", arr |-> NdArray(<<Len(condition.items)>>, condition.items)]

\* The truth value of an element of the condition, of either dtype.
Truthy(dtype, x) == x # 0

\* Variant of the choice numpy.where makes that takes x where the condition
\* is false.
WherePickInverted(t, x, y) == IF t THEN y ELSE x

\* numpy.where: x where the condition holds, y elsewhere.
WherePick(t, x, y) == IF t THEN x ELSE y

\* numpy.where(mask, x, y) for an array x and a scalar y: the three are
\* broadcast together.
NumpyWhere(mask, x, y) ==
  IF ~Broadcastable(mask.arr.shape, x.shape)
  THEN Raise("ValueError", "operands could not be broadcast together")
  ELSE LET shape == BroadcastShape(mask.arr.shape, x.shape)
       IN [kind |-> "ok",
           arr |-> NdArray(shape,
                     [m \in 1..Prod(shape) |->
                        WherePick(Truthy(mask.dtype, BroadcastPick(mask.arr, Unravel(m - 1, shape))),
                                  Float(BroadcastPick(x, Unravel(m - 1, shape))),
                                  y)])]

\* isinstance(condition, (np.ndarray, np.generic)) of charges.cube.Cube; the
\* test chargetools.grids.Cube does not make.
IsMaskingArray(condition) == condition.kind = "ndarray"

\* Cube.filter_values(condition, replace_with) of class self.cls: the array
\* numpy.where returns is a new object.
filter_values(st, self, condition, replace_with) ==
  IF ~IsArray(st[self.values])
  THEN Raise("TypeError", "values is not an array")
  ELSE IF /\ self.cls # "chargetools.grids.Cube"
          /\ condition.kind # "callable"
          /\ ~IsMaskingArray(condition)
  THEN Raise("InputError",
             "Condition argument must be a callable function or a masking numpy array.")
  ELSE LET w == NumpyWhere(ConditionArray(condition, st[self.values]),
                           st[self.values], replace_with)
       IN IF w.kind = "raise" THEN w
          ELSE [kind |-> "ok", store |-> Append(st, w.arr), ref |-> Len(st) + 1]

\* utils.chained_or(*args) without arguments.
chained_or_of_nothing == BoolCondition(FALSE)

\* Cube.value_by_atom(selected_descriptors, filter_descriptors): with a
\* descriptor in either list Molecule.select_descriptor is called, which does
\* not exist; with none, the mask is chained_or() = False.
value_by_atom(st, self, selected_descriptors, filter_descriptors) ==
  IF self.cls # "chargetools.grids.Cube"
  THEN Raise("AttributeError", "object has no attribute 'value_by_atom'")
  ELSE LET atom_values == points_labelled_by_closest_atom(st, self, filter_descriptors)
       IN IF atom_values.kind = "raise" THEN atom_values
          ELSE IF selected_descriptors # <<>>
          THEN Raise("AttributeError", "object has no attribute 'select_descriptor'")
          ELSE filter_values(st, self, chained_or_of_nothing, NaN)

(***************************************************************************)
(* Cube.save and the text it writes.  The text after the two comment lines *)
(* is a sequence of lines, a line a sequence of tokens, a token the number *)
(* its characters denote (fixed-point, in units of 1/one) and whether the  *)
(* characters are those of an integer literal.                             *)
(***************************************************************************)
\* '{: .6f}' writes six decimals, '{: .5E}' one digit and five decimals.
FormatDecimals == 6
ExponentDecimals == 5

IntToken(one, n) == [int |-> TRUE, v |-> n * one]
FloatToken(x) == [int |-> FALSE, v |-> x]

\* The number denoted by '{: .6f}'.format(x).
Text6f(one, x) == RoundHalfEven(x, one \div IntPow(10, FormatDecimals))

RECURSIVE DecimalDigits(_)
\* The number of decimal digits of the integer n >= 0 (1 for 0).
DecimalDigits(n) == IF n < 10 THEN 1 ELSE 1 + DecimalDigits(n \div 10)

\* The number denoted by '{: .5E}'.format(x): x to 1 + 5 significant digits.
Text5E(x) ==
  LET digits == DecimalDigits(Abs(x))
  IN IF digits <= 1 + ExponentDecimals THEN x
     ELSE RoundHalfEven(x, IntPow(10, digits - (1 + ExponentDecimals)))

\* Variant of the line breaks that counts sixes only.
BreakAfterSixOnly(counter, nz) == counter % 6 = 0

\* A line break follows value number counter (from 1): if not counter % 6,
\* elif not counter % self.n_voxels[-1].
BreakAfter(counter, nz) == counter % 6 = 0 \/ counter % nz = 0

RECURSIVE ValueLinesFrom(_, _, _, _)
\* The lines of the value block from value number counter on: a line ends after
\* every sixth value and after every value whose number is a multiple of
\* n_voxels[-1]; line is the unfinished line.
ValueLinesFrom(values, counter, nz, line) ==
  IF counter > Len(values)
  THEN IF line = <<>> THEN <<>> ELSE <<line>>
  ELSE LET extended == Append(line, FloatToken(Text5E(values[counter])))
       IN IF BreakAfter(counter, nz)
          THEN <<extended>> \o ValueLinesFrom(values, counter + 1, nz, <<>>)
          ELSE ValueLinesFrom(values, counter + 1, nz, extended)

\* Cube.save: the lines written after the two comment lines.  The origin line
\* holds len(molecule), three origins and a 1; every axis line holds n_voxel
\* and len(unit_vectors) numbers, the unit vector at the position of the line;
\* every atom line holds atomic_number, atomic_number + charge and the position.
save_at(one, st, self) ==
  LET molecule == st[self.molecule]
      origins == st[self.origins].data
      unit_vectors == st[self.unit_vectors].data
      n_voxels == st[self.n_voxels].data
      values == st[self.values].data
      k == MinOf({Len(unit_vectors), Len(n_voxels)})
      origin_line == <<IntToken(one, Len(molecule.atoms)),
                       FloatToken(Text6f(one, origins[1])),
                       FloatToken(Text6f(one, origins[2])),
                       FloatToken(Text6f(one, origins[3])),
                       IntToken(one, 1)>>
      axis_line(index) ==
        <<IntToken(one, n_voxels[index])>>
        \o [e \in 1..Len(unit_vectors) |->
              FloatToken(Text6f(one, IF e = index THEN unit_vectors[index] ELSE 0))]
      atom_line(a) ==
        LET atom == molecule.atoms[a]
        IN <<IntToken(one, atom.atomic_number),
             FloatToken(Text6f(one, atom.atomic_number * one + atom.charge))>>
           \o [e \in 1..3 |-> FloatToken(Text6f(one, atom.position[e]))]
  IN <<origin_line>>
     \o [index \in 1..k |-> axis_line(index)]
     \o [a \in 1..Len(molecule.atoms) |-> atom_line(a)]
     \o (IF values = <<>> THEN <<>>
         ELSE ValueLinesFrom(values, 1, n_voxels[Len(n_voxels)], <<>>))

\* The two comment lines save writes first; the second names the field type.
CommentLines(st, self) ==
  <<[text |-> " Cube file generated by charges-tools.", field_type |-> ""],
    [text |-> " Cube file for field of type {0}.", field_type |-> st[self.field_type].s]>>

\* The values save writes after its last line break: the end of the text when
\* it does not end with a line break.
UnterminatedValues(st, self) ==
  LET values == st[self.values].data
      n_voxels == st[self.n_voxels].data
      breaks == {m \in 1..Len(values) : BreakAfter(m, n_voxels[Len(n_voxels)])}
      done == IF breaks = {} THEN 0 ELSE CHOOSE m \in breaks : \A n \in breaks : n <= m
  IN [e \in 1..(Len(values) - done) |-> FloatToken(Text5E(values[done + e]))]

\* lines[a:b] of Python, on the lines after the two comment lines (1-based,
\* both ends included, cut at the end of the text).
Slice(lines, a, b) ==
  [i \in 1..(IF b > Len(lines) THEN (IF Len(lines) >= a THEN Len(lines) - a + 1 ELSE 0)
             ELSE (IF b >= a THEN b - a + 1 ELSE 0)) |-> lines[a + i - 1]]

\* What from_cube_file reads in a written text: lines[2] is the origin line,
\* lines[3:6] the axis lines, lines[6:6+n_atoms] the atom lines and the rest
\* the value block; int() refuses the characters of a float.
ReadText(one, name, lines) ==
  LET origin_line == lines[1]
      n_atoms == origin_line[1].v \div one
      axis_lines == Slice(lines, 2, 4)
      atom_lines == Slice(lines, 5, 4 + n_atoms)
      value_lines == Slice(lines, 5 + n_atoms, Len(lines))
      floats(line, from) == [e \in 1..(Len(line) - from + 1) |-> line[from + e - 1].v]
  IN IF \/ ~origin_line[1].int
        \/ \E r \in 1..Len(axis_lines) : ~axis_lines[r][1].int
        \/ \E a \in 1..Len(atom_lines) : ~atom_lines[a][1].int
     THEN Raise("ValueError", "invalid literal for int() with base 10")
     ELSE [kind |-> "ok",
           file |-> CubeFile(name,
                      [e \in 1..3 |-> origin_line[1 + e].v],
                      [r \in 1..Len(axis_lines) |->
                         [n |-> axis_lines[r][1].v \div one, vec |-> floats(axis_lines[r], 2)]],
                      [a \in 1..Len(atom_lines) |->
                         [atomic_number |-> atom_lines[a][1].v \div one,
                          col2 |-> atom_lines[a][2].v,
                          position |-> floats(atom_lines[a], 3)]],
                      Flatten([l \in 1..Len(value_lines) |-> floats(value_lines[l], 1)]))]

\* from_cube_file on a text written by save.
from_written_file(one, st, cls, name, lines, header_only, uninit) ==
  LET read == ReadText(one, name, lines)
  IN IF read.kind = "raise" THEN read
     ELSE from_cube_file_at(one, st, cls, read.file, header_only, uninit)

\* A Cube instance held as an attribute of another object.
CubeObj(cube) == [tag |-> "Cube", cube |-> cube]

\* MoleculeWithCharge.error_cube(potential): the difference
\* reproduce_cube(potential) - potential is a Cube (built by Cube.__sub__), and
\* that Cube is what assign_new_values_to receives as new_values.
error_cube(st, self, potential) ==
  LET r == reproduce_cube(st, self, potential)
  IN IF r.kind = "raise" THEN r
     ELSE LET d == __sub__(r.store, r.cube, [kind |-> "Cube", cube |-> potential])
          IN IF d.kind = "raise" THEN d
             ELSE Ok(Append(d.store, CubeObj(d.cube)),
                     assign_new_values_to("chargetools.grids.Cube", potential,
                                          Len(d.store) + 1))

(***************************************************************************)
(* Inputs of the arithmetic specification                                  *)
(***************************************************************************)
Classes == {"chargetools.grids.Cube", "charges.cube.Cube"}

\* Grid shapes of the parsed files: two shapes with the same number of voxels
\* and different extents.
ArithShapes == {<<1, 1, 2>>, <<1, 2, 1>>}

\* Value blocks a file may hold (two voxels): mixed signs, and equal values.
ArithTokens == {<<-1, 2>>, <<2, 2>>}

\* What numpy.empty may hold.
UninitVals == {0, 2}

\* Scalar right operands (Python int or float).
Scalars == {0, 1, 2}

\* Raw numpy arrays passed as right operand or as new_values: one of each grid
\* shape (each broadcasts against the other shape to a larger array), one
\* that broadcasts against both, and one that broadcasts against one only.
RawArrays ==
  {NdArray(<<1, 1, 2>>, <<2, 1>>), NdArray(<<1, 2, 1>>, <<1, 2>>),
   NdArray(<<1, 1, 1>>, <<2>>), NdArray(<<1, 1, 3>>, <<1, 1, 1>>)}

\* An orthogonal header: row d has its step in component d.
DiagonalRows(n_voxels, steps) ==
  [d \in 1..3 |-> [n |-> n_voxels[d],
                   vec |-> [e \in 1..3 |-> IF e = d THEN steps[d] ELSE 0]]]

\* One hydrogen atom with no net charge at the origin.
OneAtom == <<[atomic_number |-> 1, col2 |-> 1, position |-> <<0, 0, 0>>]>>

\* Files with a full value block, and header-only templates without one.
ArithFiles ==
  {CubeFile("a.cub", <<0, 0, 0>>, DiagonalRows(sh, <<1, 1, 1>>), OneAtom, t) :
     sh \in ArithShapes, t \in ArithTokens}
  \cup {CubeFile("h.cub", <<0, 0, 0>>, DiagonalRows(sh, <<1, 1, 1>>), OneAtom, <<>>) :
     sh \in ArithShapes}

(***************************************************************************)
(* State machine                                                           *)
(***************************************************************************)
NoOperand == [kind |-> "none"]

Init ==
  /\ store = <<NoneObj, StrObj("potential")>>
  /\ cubes = <<>>
  /\ prov = <<>>
  /\ last = [op |-> "init", left |-> 0, right |-> NoOperand,
             outcome |-> "ok", exc |-> "", msg |-> "", result |-> 0,
             value |-> <<>>]
  /\ disk = <<>>

\* The effect of a call that returns a Cube or raises: a returned Cube is a new
\* instance; a raised exception leaves no new object reachable.  Nothing in the
\* library catches these exceptions: the run ends with the exception (the
\* heap it leaves is the heap before the call).
Running == last.outcome = "ok"

Commit(op, left, right, res) ==
  IF res.kind = "ok"
  THEN /\ UNCHANGED disk
       /\ store' = res.store
       /\ cubes' = Append(cubes, res.cube)
       /\ prov' = Append(prov, [op |-> op, left |-> left, right |-> right])
       /\ last' = [op |-> op, left |-> left, right |-> right,
                   outcome |-> "ok", exc |-> "", msg |-> "",
                   result |-> Len(cubes) + 1, value |-> <<>>]
  ELSE /\ UNCHANGED <<store, cubes, prov, disk>>
       /\ last' = [op |-> op, left |-> left, right |-> right,
                   outcome |-> "raise", exc |-> res.exc, msg |-> res.msg,
                   result |-> 0, value |-> <<>>]

\* The effect of reading a property that returns plain arrays or raises: no
\* Cube is created and none is touched.
Return(op, left, res) ==
  /\ UNCHANGED <<store, cubes, prov, disk>>
  /\ last' = IF res.kind = "ok"
             THEN [op |-> op, left |-> left, right |-> NoOperand,
                   outcome |-> "ok", exc |-> "", msg |-> "",
                   result |-> 0, value |-> res.value]
             ELSE [op |-> op, left |-> left, right |-> NoOperand,
                   outcome |-> "raise", exc |-> res.exc, msg |-> res.msg,
                   result |-> 0, value |-> <<>>]

\* The right operands a binary operator is tried with.
Operands ==
  {[kind |-> "scalar", v |-> v] : v \in Scalars}
  \cup {[kind |-> "ndarray", arr |-> a] : a \in RawArrays}
  \cup {[kind |-> "Cube", ref |-> j] : j \in 1..Len(cubes)}
  \cup {[kind |-> "str"]}

\* The operand as the method sees it: a Cube reference is the Cube itself.
Resolve(x) == IF x.kind = "Cube" THEN [kind |-> "Cube", cube |-> cubes[x.ref]] ELSE x

\* Exponents are kept non-negative: the integers of the model cannot hold
\* x ** -n.
NonNegExponent(x) ==
  CASE x.kind = "scalar" -> x.v >= 0
    [] x.kind = "ndarray" -> \A m \in 1..Len(x.arr.data) : x.arr.data[m] >= 0
    [] x.kind = "Cube" ->
         LET o == store[cubes[x.ref].values]
         IN IsArray(o) => \A m \in 1..Len(o.data) : o.data[m] >= 0
    [] OTHER -> TRUE

Parse(cls, file, header_only) ==
  /\ Running
  /\ Len(cubes) < MaxCubes
  /\ header_only => cls = "chargetools.grids.Cube"
  /\ \E uninit \in [1..Prod([r \in 1..3 |-> file.rows[r].n]) -> UninitVals] :
       /\ ~header_only => uninit = [m \in 1..Prod([r \in 1..3 |-> file.rows[r].n]) |-> 0]
       /\ Commit("from_cube_file", 0,
                 [kind |-> "file", name |-> file.name, header_only |-> header_only],
                 from_cube_file(store, cls, file, header_only, uninit))

AssignNewValues(i, arr) ==
  /\ Running
  /\ Len(cubes) < MaxCubes
  /\ Commit("assign_new_values_to", i, [kind |-> "ndarray", arr |-> arr],
            Ok(Append(store, arr),
               assign_new_values_to(cubes[i].cls, cubes[i], Len(store) + 1)))

Add(i, x) ==
  /\ Running
  /\ Len(cubes) < MaxCubes
  /\ Commit("add", i, x, __add__(store, cubes[i], Resolve(x)))

Sub(i, x) ==
  /\ Running
  /\ Len(cubes) < MaxCubes
  /\ Commit("sub", i, x, __sub__(store, cubes[i], Resolve(x)))

Mul(i, x) ==
  /\ Running
  /\ Len(cubes) < MaxCubes
  /\ Commit("mul", i, x, __mul__(store, cubes[i], Resolve(x)))

TrueDiv(i, x) ==
  /\ Running
  /\ Len(cubes) < MaxCubes
  /\ Commit("truediv", i, x, __truediv__(store, cubes[i], Resolve(x)))

Pow(i, x) ==
  /\ Running
  /\ Len(cubes) < MaxCubes
  /\ NonNegExponent(x)
  /\ Commit("pow", i, x, __pow__(store, cubes[i], Resolve(x)))

AbsOp(i) ==
  /\ Running
  /\ Len(cubes) < MaxCubes
  /\ Commit("abs", i, NoOperand, __abs__(store, cubes[i]))

Next ==
  \/ \E cls \in Classes, file \in ArithFiles, h \in BOOLEAN : Parse(cls, file, h)
  \/ \E i \in 1..Len(cubes), arr \in RawArrays : AssignNewValues(i, arr)
  \/ \E i \in 1..Len(cubes), x \in Operands : Add(i, x)
  \/ \E i \in 1..Len(cubes), x \in Operands : Sub(i, x)
  \/ \E i \in 1..Len(cubes), x \in Operands : Mul(i, x)
  \/ \E i \in 1..Len(cubes), x \in Operands : TrueDiv(i, x)
  \/ \E i \in 1..Len(cubes), x \in Operands : Pow(i, x)
  \/ \E i \in 1..Len(cubes) : AbsOp(i)

Spec == Init /\ [][Next]_vars

(***************************************************************************)
(* The coordinate and reconstruction specification: a template cube is     *)
(* parsed, its coordinates are read, and potentials are reconstructed on   *)
(* its grid.                                                               *)
(***************************************************************************)
GridShapes == {<<nx, ny, nz>> : nx \in 1..MaxN, ny \in 1..MaxN, nz \in 1..MaxNz}

\* Grid steps: a cubic grid, and one with a longer step along y.
GridSteps == {<<1, 1, 1>>, <<1, 2, 1>>}

\* Atom lines of the template files: one atom of charge +1 at the origin, alone
\* or with an atom of charge -1 on the x axis; and two neutral atoms on the
\* x axis with grid points half way between them.
GridAtomLines ==
  {<<[atomic_number |-> 1, col2 |-> 2, position |-> <<0, 0, 0>>]>>,
   <<[atomic_number |-> 1, col2 |-> 2, position |-> <<0, 0, 0>>],
     [atomic_number |-> 8, col2 |-> 7, position |-> <<3, 0, 0>>]>>,
   <<[atomic_number |-> 1, col2 |-> 1, position |-> <<2, 0, 0>>],
     [atomic_number |-> 1, col2 |-> 1, position |-> <<0, 0, 0>>]>>}

\* The atom descriptors the closest-atom methods are called with: none, the
\* label of the first atom, the label of the second.
Descriptors == {<<>>, <<1>>, <<2>>}

\* The value block of a template: the voxel's flat index, so that every voxel
\* is told from every other.
GridFiles ==
  {CubeFile("t.cub", <<0, 0, 0>>, DiagonalRows(sh, st), al, [m \in 1..Prod(sh) |-> m]) :
     sh \in GridShapes, st \in GridSteps, al \in GridAtomLines}

\* The charged molecules reproduce_cube is called on: the atoms of a template
\* with their charges, and a molecule whose atom sits elsewhere.
ChargedMolecules ==
  {MoleculeObj(<<Atom(1, 1, 1, <<0, 0, 0>>)>>),
   MoleculeObj(<<Atom(1, 1, 1, <<0, 0, 0>>), Atom(2, 8, -1, <<3, 0, 0>>)>>),
   MoleculeObj(<<Atom(1, 1, 2, <<0, 1, 0>>)>>)}

ParseGrid(file) ==
  /\ Running
  /\ Len(cubes) < MaxTemplates
  /\ Commit("from_cube_file", 0,
            [kind |-> "file", name |-> file.name, header_only |-> FALSE],
            from_cube_file(store, "chargetools.grids.Cube", file, FALSE, <<>>))

GetMeshgrid(i) ==
  /\ Running
  /\ Return("meshgrid", i, meshgrid(store, cubes[i]))

GetFlatCoordinates(i) ==
  /\ Running
  /\ Return("flat_coordinates", i, flat_coordinates(store, cubes[i]))

ReproduceCube(mol, i) ==
  /\ Running
  /\ Len(cubes) < MaxTemplates + MaxDerived
  /\ Commit("reproduce_cube", i, [kind |-> "Molecule", mol |-> mol],
            reproduce_cube(store, mol, cubes[i]))

\* The effect of a method that takes arguments and returns a plain array or
\* raises: no Cube is created and none is touched.
ReturnArgs(op, left, right, res) ==
  /\ UNCHANGED <<store, cubes, prov, disk>>
  /\ last' = IF res.kind = "ok"
             THEN [op |-> op, left |-> left, right |-> right,
                   outcome |-> "ok", exc |-> "", msg |-> "",
                   result |-> 0, value |-> res.value]
             ELSE [op |-> op, left |-> left, right |-> right,
                   outcome |-> "raise", exc |-> res.exc, msg |-> res.msg,
                   result |-> 0, value |-> <<>>]

PointsLabelledByClosestAtom(i, ds) ==
  /\ Running
  /\ ReturnArgs("points_labelled_by_closest_atom", i,
                [kind |-> "descriptors", descriptors |-> ds],
                points_labelled_by_closest_atom(store, cubes[i], ds))

DistanceToClosestAtom(i, ds) ==
  /\ Running
  /\ ReturnArgs("distance_to_closest_atom", i,
                [kind |-> "descriptors", descriptors |-> ds],
                distance_to_closest_atom(store, cubes[i], ds))

ErrorCube(mol, i) ==
  /\ Running
  /\ Len(cubes) < MaxTemplates + MaxDerived
  /\ Commit("error_cube", i, [kind |-> "Molecule", mol |-> mol],
            error_cube(store, mol, cubes[i]))

NextGrid ==
  \/ \E file \in GridFiles : ParseGrid(file)
  \/ \E i \in 1..Len(cubes) : GetMeshgrid(i)
  \/ \E i \in 1..Len(cubes) : GetFlatCoordinates(i)
  \/ \E i \in 1..Len(cubes), mol \in ChargedMolecules : ReproduceCube(mol, i)
  \/ \E i \in 1..Len(cubes), mol \in ChargedMolecules : ErrorCube(mol, i)
  \/ \E i \in 1..Len(cubes), ds \in Descriptors : PointsLabelledByClosestAtom(i, ds)
  \/ \E i \in 1..Len(cubes), ds \in Descriptors : DistanceToClosestAtom(i, ds)

SpecGrid == Init /\ [][NextGrid]_vars

(***************************************************************************)
(* The file specification: an input file is parsed (in full or header      *)
(* only), the Cube is saved, and the written file is parsed.  Numbers have *)
(* seven decimals, one more than save writes.                              *)
(***************************************************************************)
FileOne == 10 * IntPow(10, FormatDecimals)

\* The steps of the three axes (0.5, 0.25, 0.0123456), a second component of a
\* row that is not axis-aligned (0.75), and a component below 0.01 (0.005).
FileSteps == <<5000000, 2500000, 123456>>
SecondStep == 7500000
NearZero == 50000

\* The position after d, cyclically.
NextAxis(d) == (d % 3) + 1

\* The header row of axis d, by kind.
FileRow(kind, d) ==
  [e \in 1..3 |->
     CASE kind = "aligned" -> IF e = d THEN FileSteps[d] ELSE 0
       [] kind = "near-zero" -> IF e = d THEN FileSteps[d]
                                  ELSE IF e = NextAxis(d) THEN NearZero ELSE 0
       [] kind = "misplaced" -> IF e = NextAxis(d) THEN FileSteps[d] ELSE 0
       [] kind = "two" -> IF e = d THEN FileSteps[d]
                            ELSE IF e = NextAxis(d) THEN SecondStep ELSE 0
       [] kind = "none" -> IF e = d THEN NearZero ELSE 0]

\* The kinds of the three header rows of an input file.
FileRowKinds ==
  {<<k1, k2, k3>> : k1 \in {"aligned", "near-zero", "misplaced", "two", "none"},
                    k2 \in {"aligned", "two", "none"},
                    k3 \in {"aligned", "near-zero"}}

FileShapes == {<<1, 2, 1>>, <<2, 1, 2>>}

\* Origins: zeros, and (0.1234567, -1.0, 0.0).
FileOrigins == {<<0, 0, 0>>, <<1234567, -10000000, 0>>}

\* The values a block is filled from: 1.234567, -0.5, 0.0, 2.0000004,
\* 0.1234567.
ValuePool == <<12345670, -5000000, 0, 20000004, 1234567>>

\* The block holds as many values as the header declares, one or two fewer (no
\* value at all for the smaller shape) or one more.
TokenExcess == {-2, -1, 0, 1}

\* Two atom lines: hydrogen with second column 1.0 at (0.5, 0, -0.25) and
\* oxygen with second column 7.5 at the origin.
FileAtomLines ==
  <<[atomic_number |-> 1, col2 |-> 10000000, position |-> <<5000000, 0, -2500000>>],
    [atomic_number |-> 8, col2 |-> 75000000, position |-> <<0, 0, 0>>]>>

\* Shapes whose rows along z are longer than six values, and not a divisor
\* of six.
LongRowShapes == {<<1, 1, 7>>, <<1, 2, 4>>}

\* Files of these shapes: aligned rows and the values 0.1, 0.2, ... in order.
LongRowFiles ==
  {CubeFile("in.cub", <<0, 0, 0>>,
            [d \in 1..3 |-> [n |-> sh[d], vec |-> FileRow("aligned", d)]],
            FileAtomLines,
            [m \in 1..Prod(sh) |-> m * (FileOne \div 10)]) : sh \in LongRowShapes}

InputFiles ==
  {CubeFile("in.cub", o,
            [d \in 1..3 |-> [n |-> sh[d], vec |-> FileRow(ks[d], d)]],
            FileAtomLines,
            [m \in 1..(Prod(sh) + x) |-> ValuePool[m]]) :
     o \in FileOrigins, ks \in FileRowKinds, sh \in FileShapes, x \in TokenExcess}
  \cup LongRowFiles

Paths == {"out.cub"}

\* What numpy.empty may hold for a header with these voxel counts: one value
\* throughout, or two values in turn.
Uninitialised(n_voxels) ==
  {[m \in 1..Prod(n_voxels) |-> v] : v \in UninitVals}
  \cup {[m \in 1..Prod(n_voxels) |-> IF m % 2 = 0 THEN 0 ELSE 2]}

ParseFile(cls, file, header_only) ==
  /\ Running
  /\ Len(cubes) < MaxParsed
  /\ header_only => cls = "chargetools.grids.Cube"
  /\ \E uninit \in Uninitialised([r \in 1..Len(file.rows) |-> file.rows[r].n]) :
       /\ ~header_only => \A m \in DOMAIN uninit : uninit[m] = 0
       /\ Commit("from_cube_file", 0,
                 [kind |-> "file", cls |-> cls, header_only |-> header_only, file |-> file],
                 from_cube_file_at(FileOne, store, cls, file, header_only, uninit))

\* Cube.save(file_path): open(file_path, 'x') refuses a path that exists;
\* charges.cube.Cube has no save.  comments and lines are the text, in that
\* order; writer records the Cube that wrote the file,
\* unterminated what the text holds after its last line break.
SaveCube(i, path) ==
  /\ Running
  /\ UNCHANGED <<store, cubes, prov>>
  /\ IF cubes[i].cls # "chargetools.grids.Cube"
     THEN /\ UNCHANGED disk
          /\ last' = [op |-> "save", left |-> i, right |-> [kind |-> "path", path |-> path],
                      outcome |-> "raise", exc |-> "AttributeError",
                      msg |-> "object has no attribute 'save'", result |-> 0, value |-> <<>>]
     ELSE IF path \in DOMAIN disk
     THEN /\ UNCHANGED disk
          /\ last' = [op |-> "save", left |-> i, right |-> [kind |-> "path", path |-> path],
                      outcome |-> "raise", exc |-> "FileExistsError",
                      msg |-> "File exists", result |-> 0, value |-> <<>>]
     ELSE /\ disk' = (path :> [comments |-> CommentLines(store, cubes[i]),
                                lines |-> save_at(FileOne, store, cubes[i]),
                                unterminated |-> UnterminatedValues(store, cubes[i]),
                                writer |-> i]) @@ disk
          /\ last' = [op |-> "save", left |-> i, right |-> [kind |-> "path", path |-> path],
                      outcome |-> "ok", exc |-> "", msg |-> "", result |-> 0, value |-> <<>>]

\* The header rows a written text is read with (none when int() refuses).
WrittenRows(path) ==
  LET read == ReadText(FileOne, path, disk[path].lines)
  IN IF read.kind = "ok" THEN [r \in 1..Len(read.file.rows) |-> read.file.rows[r].n] ELSE <<>>

ParseWritten(cls, path, header_only) ==
  /\ Running
  /\ path \in DOMAIN disk
  /\ Len(cubes) < MaxParsed + MaxReparsed
  /\ header_only => cls = "chargetools.grids.Cube"
  /\ \E uninit \in Uninitialised(WrittenRows(path)) :
       /\ ~header_only => \A m \in DOMAIN uninit : uninit[m] = 0
       /\ Commit("from_cube_file", disk[path].writer,
                 [kind |-> "written", cls |-> cls, header_only |-> header_only, path |-> path],
                 from_written_file(FileOne, store, cls, path, disk[path].lines,
                                   header_only, uninit))

NextFile ==
  \/ \E cls \in Classes, file \in InputFiles, h \in BOOLEAN : ParseFile(cls, file, h)
  \/ \E i \in 1..Len(cubes), path \in Paths : SaveCube(i, path)
  \/ \E cls \in Classes, path \in Paths, h \in BOOLEAN : ParseWritten(cls, path, h)

SpecFile == Init /\ [][NextFile]_vars

(***************************************************************************)
(* Molecule.number_connections.  An atom is its label (Atom.__eq__         *)
(* compares labels, and the atoms of the bonds are the atoms of the        *)
(* molecule); a bond is the sequence of its bonding atoms, of bond order 1 *)
(* (above the default min_bond_order of 0).                                *)
(***************************************************************************)
\* Bond.contains(atom): some bonding atom equals atom.
contains(bond, atom) == \E k \in 1..Len(bond) : bond[k] = atom

RECURSIVE select_bonded(_, _)
\* Molecule.select_bonded(atom): for every bond that contains atom, in the
\* order of self.bonds, its bonding atoms other than atom.
select_bonded(bonds, atom) ==
  IF bonds = <<>> THEN <<>>
  ELSE (IF contains(Head(bonds), atom)
        THEN SelectSeq(Head(bonds), LAMBDA x : x # atom)
        ELSE <<>>) \o select_bonded(Tail(bonds), atom)

\* What number_connections returns: an int, float("inf"), or None.
IntResult(n) == [kind |-> "int", n |-> n, depth |-> 0]
InfResult == [kind |-> "inf", n |-> 0, depth |-> 0]
NoneResult == [kind |-> "None", n |-> 0, depth |-> 0]

RECURSIVE iter_atoms(_, _, _, _, _)
\* iter_atoms(_a, _b, n, min_bond_order_, stop) of number_connections: the for
\* loop returns in its first round, and falls through (None) when _b has no
\* bonded atom.  depth counts the nested recursive calls.
iter_atoms(bonds, a, b, n, stop) ==
  LET bonded == select_bonded(bonds, b)
  IN IF \E k \in 1..Len(bonded) : bonded[k] = a THEN IntResult(n)
     ELSE IF n + 1 > stop THEN InfResult
     ELSE IF bonded = <<>> THEN NoneResult
     ELSE LET r == iter_atoms(bonds, a, bonded[1], n + 1, stop)
          IN [r EXCEPT !.depth = r.depth + 1]

\* Molecule.number_connections(atom_a, atom_b)
number_connections(bonds, atom_a, atom_b) == iter_atoms(bonds, atom_a, atom_b, 1, Len(bonds))

(***************************************************************************)
(* The bond specification: number_connections is called on the atoms of a  *)
(* molecule with a list of bonds.                                          *)
(***************************************************************************)
MaxAtoms == 4
MaxBonds == 3

\* The bonds two atoms of the molecule can form (select_bonded and contains do
\* not depend on the order of the two atoms in a bond).
BondPairs == {p \in (1..MaxAtoms) \X (1..MaxAtoms) : p[1] < p[2]}

\* The lists of bonds, in every order: no bond twice.
BondLists ==
  {bs \in UNION {[1..k -> BondPairs] : k \in 0..MaxBonds} :
     \A p, q \in 1..Len(bs) : p # q => bs[p] # bs[q]}

\* The call reads its arguments only: one call is made, on any molecule.
NumberConnections(bonds, atom_a, atom_b) ==
  /\ last.op = "init"
  /\ UNCHANGED <<store, cubes, prov, disk>>
  /\ last' = [op |-> "number_connections", left |-> 0,
              right |-> [kind |-> "atoms", bonds |-> bonds, atom_a |-> atom_a, atom_b |-> atom_b],
              outcome |-> "ok", exc |-> "", msg |-> "", result |-> 0,
              value |-> number_connections(bonds, atom_a, atom_b)]

NextBonds ==
  \E bonds \in BondLists, a \in 1..MaxAtoms, b \in 1..MaxAtoms : NumberConnections(bonds, a, b)

SpecBonds == Init /\ [][NextBonds]_vars

(***************************************************************************)
(* The filter specification: a file is parsed and its values are filtered. *)
(***************************************************************************)
MaxFiltered == 1

FilterShapes == {<<1, 2, 2>>, <<2, 1, 1>>}

\* Value blocks: mixed signs with a zero, and positive values.
FilterTokens == {<<-1, 2, 0, 3>>, <<1, 2, 3, 4>>}

FilterFiles ==
  {CubeFile("f.cub", <<0, 0, 0>>, DiagonalRows(sh, <<1, 1, 1>>), OneAtom,
            [m \in 1..Prod(sh) |-> t[m]]) : sh \in FilterShapes, t \in FilterTokens}

\* Boolean masks of a shape: all true, all false, true at the odd flat indices.
MasksOf(shape) ==
  {NdArray(shape, [m \in 1..Prod(shape) |-> 1]),
   NdArray(shape, [m \in 1..Prod(shape) |-> 0]),
   NdArray(shape, [m \in 1..Prod(shape) |-> m % 2])}

\* The conditions filter_values is called with: the callables, boolean masks
\* of the grid shapes and of the shapes (1,) and (3,), integer arrays of the
\* grid shapes, Python bools, None and a list.
Conditions ==
  {CallableCondition(f) : f \in {"positive", "abs_at_least_two"}}
  \cup {ArrayCondition("bool", a) : a \in UNION {MasksOf(sh) : sh \in FilterShapes \cup {<<1>>, <<3>>}}}
  \cup {ArrayCondition("int", NdArray(sh, [m \in 1..Prod(sh) |-> m - 1])) : sh \in FilterShapes}
  \cup {BoolCondition(TRUE), BoolCondition(FALSE), NoneCondition, ListCondition(<<1, 0>>)}

\* replace_with: the default numpy.nan, and 9.0.
Replacements == {NaN, Float(9)}

\* The objects of the store no Cube holds: the arrays returned to the caller.
Returned_arrays ==
  {r \in 3..Len(store) :
     \A i \in 1..Len(cubes) :
       r \notin {cubes[i].from_file, cubes[i].values, cubes[i].axes, cubes[i].molecule,
                 cubes[i].origins, cubes[i].unit_vectors, cubes[i].n_voxels}}

\* The effect of a method that returns a new array or raises.
ReturnNew(op, left, right, res) ==
  /\ UNCHANGED <<cubes, prov, disk>>
  /\ IF res.kind = "ok"
     THEN /\ store' = res.store
          /\ last' = [op |-> op, left |-> left, right |-> right,
                      outcome |-> "ok", exc |-> "", msg |-> "",
                      result |-> 0, value |-> res.ref]
     ELSE /\ UNCHANGED store
          /\ last' = [op |-> op, left |-> left, right |-> right,
                      outcome |-> "raise", exc |-> res.exc, msg |-> res.msg,
                      result |-> 0, value |-> <<>>]

ParseToFilter(cls, file) ==
  /\ Running
  /\ Len(cubes) < MaxTemplates
  /\ Commit("from_cube_file", 0,
            [kind |-> "file", name |-> file.name, header_only |-> FALSE],
            from_cube_file(store, cls, file, FALSE, <<>>))

FilterValues(i, condition, replace_with) ==
  /\ Running
  /\ Cardinality(Returned_arrays) < MaxFiltered
  /\ ReturnNew("filter_values", i,
               [kind |-> "condition", condition |-> condition, replace_with |-> replace_with],
               filter_values(store, cubes[i], condition, replace_with))

ValueByAtom(i, selected, filters) ==
  /\ Running
  /\ Cardinality(Returned_arrays) < MaxFiltered
  /\ ReturnNew("value_by_atom", i,
               [kind |-> "descriptors", selected |-> selected, filters |-> filters],
               value_by_atom(store, cubes[i], selected, filters))

NextFilter ==
  \/ \E cls \in Classes, file \in FilterFiles : ParseToFilter(cls, file)
  \/ \E i \in 1..Len(cubes), c \in Conditions, rw \in Replacements : FilterValues(i, c, rw)
  \/ \E i \in 1..Len(cubes), sel \in {<<>>, <<1>>}, fil \in {<<>>, <<1>>} : ValueByAtom(i, sel, fil)

SpecFilter == Init /\ [][NextFilter]_vars

(***************************************************************************)
(* Charge assignment: Molecule.from_ac_file, the copy methods of Atom,     *)
(* Bond and Molecule, MoleculeWithCharge.from_plaintext_list and           *)
(* from_gaussian_log.  Atoms, bonds and molecules are objects of `store`   *)
(* held by reference: a Molecule holds the references of its atoms and of  *)
(* its bonds, a Bond the references of its atoms, an Atom the reference of *)
(* its position array.  Charges are fixed-point numbers with ChargeOne     *)
(* units to 1.                                                             *)
(***************************************************************************)
ToleranceDecimals == 4

ChargeOne == 10 * IntPow(10, ToleranceDecimals)

\* Outcome of a call that allocates: the store after it and the reference it
\* returns (0 when it raises).
Allocated(st, obj) == [kind |-> "ok", exc |-> "", store |-> Append(st, obj), ref |-> Len(st) + 1]

Raised(st, exc) == [kind |-> "raise", exc |-> exc, store |-> st, ref |-> 0]

\* Atom.__init__: the position is converted to a new float array when it is
\* iterable, and is None otherwise (symbol is derived from atomic_number).
Atom__init__(st, label, atomic_number, charge, position) ==
  LET iterable == st[position].tag = "ndarray"
      st1 == IF iterable THEN Append(st, NdArray(st[position].shape, st[position].data)) ELSE st
  IN Allocated(st1, [tag |-> "Atom", label |-> label, atomic_number |-> atomic_number,
                     charge |-> charge,
                     position |-> IF iterable THEN Len(st1) ELSE NoneRef])

\* copy.deepcopy of a position: a new array, or None itself.
deepcopy(st, ref) ==
  IF st[ref].tag = "ndarray" THEN Allocated(st, st[ref])
  ELSE [kind |-> "ok", exc |-> "", store |-> st, ref |-> ref]

\* A copy method that hands back the Atom it was given.
Atom_copy_same(st, atom) == [kind |-> "ok", exc |-> "", store |-> st, ref |-> atom]

\* Atom.copy
Atom_copy(st, atom) ==
  LET d == deepcopy(st, st[atom].position)
  IN Atom__init__(d.store, st[atom].label, st[atom].atomic_number, st[atom].charge, d.ref)

\* Bond.__init__
Bond__init__(st, bonding_atoms, bond_order) ==
  Allocated(st, [tag |-> "Bond", bonding_atoms |-> bonding_atoms, bond_order |-> bond_order])

\* find_atom_by_label of Bond.copy: the first atom with the label, else None.
RECURSIVE find_atom_by_label(_, _, _)
find_atom_by_label(st, label, atoms) ==
  IF atoms = <<>> THEN NoneRef
  ELSE IF label = st[Head(atoms)].label THEN Head(atoms)
  ELSE find_atom_by_label(st, label, Tail(atoms))

\* Bond.copy
Bond_copy(st, bond, all_atoms) ==
  Bond__init__(st,
               [k \in 1..Len(st[bond].bonding_atoms) |->
                  find_atom_by_label(st, st[st[bond].bonding_atoms[k]].label, all_atoms)],
               st[bond].bond_order)

\* A list of bonds or None.
BondList(refs) == [none |-> FALSE, refs |-> refs]

NoBonds == [none |-> TRUE, refs |-> <<>>]

\* Molecule.__init__ (cls is Molecule or a subclass)
Molecule__init__(st, cls, atoms, bonds, name, charge) ==
  Allocated(st, [tag |-> cls, atoms |-> atoms, bonds |-> bonds, name |-> name, charge |-> charge,
                 charge_file_name |-> ""])

\* [Atom.copy(atom) for atom in molecule.atoms]
RECURSIVE CopyAtoms(_, _)
CopyAtoms(st, atoms) ==
  IF atoms = <<>> THEN [store |-> st, refs |-> <<>>]
  ELSE LET a == Atom_copy(st, Head(atoms))
           r == CopyAtoms(a.store, Tail(atoms))
       IN [store |-> r.store, refs |-> <<a.ref>> \o r.refs]

\* [Bond.copy(bond, atoms) for bond in molecule.bonds]
RECURSIVE CopyBonds(_, _, _)
CopyBonds(st, bonds, atoms) ==
  IF bonds = <<>> THEN [store |-> st, refs |-> <<>>]
  ELSE LET b == Bond_copy(st, Head(bonds), atoms)
           r == CopyBonds(b.store, Tail(bonds), atoms)
       IN [store |-> r.store, refs |-> <<b.ref>> \o r.refs]

\* Molecule.copy: the bonds are copied when the list is not empty, and are
\* None otherwise.
\* The bonds of Molecule.copy, once the atoms are copied: copies that refer to
\* the copied atoms when the list is not empty.
CopyOfBonds(bonds, copied) ==
  IF ~bonds.none /\ bonds.refs # <<>>
  THEN CopyBonds(copied.store, bonds.refs, copied.refs)
  ELSE [store |-> copied.store, refs |-> <<>>]

\* cls(atoms, bonds, molecule.name, molecule.charge); bonds is None when
\* nothing was copied.
CopiedMolecule(molecule, atoms, bonds) ==
  Molecule__init__(bonds.store, "Molecule", atoms,
                   IF bonds.refs # <<>> THEN BondList(bonds.refs) ELSE NoBonds,
                   molecule.name, molecule.charge)

\* Molecule.copy from the copied atoms on.
CopyWithAtoms(molecule, copied) ==
  CopiedMolecule(molecule, copied.refs, CopyOfBonds(molecule.bonds, copied))

Molecule_copy(st, molecule) == CopyWithAtoms(st[molecule], CopyAtoms(st, st[molecule].atoms))

\* utils.symbol_to_atomic_number on the symbols of the input files.
symbol_to_atomic_number(symbol) ==
  CASE symbol = "H" -> 1
    [] symbol = "C" -> 6
    [] symbol = "O" -> 8

\* Atom.from_ac_line on a line [label, symbol, position, charge]
Atom_from_ac_line(st, line) ==
  LET segments == Allocated(st, NdArray(<<3>>, line.position))
  IN Atom__init__(segments.store, line.label, symbol_to_atomic_number(line.symbol),
                  int_if_close_at(ChargeOne, line.charge), segments.ref)

\* Bond.from_ac_line on a line [a, b, order]: the atoms are taken by their
\* place in the list.
Bond_from_ac_line(st, line, all_atoms) ==
  Bond__init__(st, <<all_atoms[line.a], all_atoms[line.b]>>, line.order)

RECURSIVE ReadAtoms(_, _)
ReadAtoms(st, atom_lines) ==
  IF atom_lines = <<>> THEN [store |-> st, refs |-> <<>>]
  ELSE LET a == Atom_from_ac_line(st, Head(atom_lines))
           r == ReadAtoms(a.store, Tail(atom_lines))
       IN [store |-> r.store, refs |-> <<a.ref>> \o r.refs]

RECURSIVE ReadBonds(_, _, _)
ReadBonds(st, bond_lines, atoms) ==
  IF bond_lines = <<>> THEN [store |-> st, refs |-> <<>>]
  ELSE LET b == Bond_from_ac_line(st, Head(bond_lines), atoms)
           r == ReadBonds(b.store, Tail(bond_lines), atoms)
       IN [store |-> r.store, refs |-> <<b.ref>> \o r.refs]

\* Molecule.from_ac_file on a file [name, charge, atom_lines, bond_lines]:
\* the bonds are a list even when the file has no BOND line; name is None.
from_ac_file(st, ac_file) ==
  LET a == ReadAtoms(st, ac_file.atom_lines)
      b == ReadBonds(a.store, ac_file.bond_lines, a.refs)
  IN Molecule__init__(b.store, "Molecule", a.refs, BondList(b.refs), "",
                      int_if_close_at(ChargeOne, ac_file.charge))

\* A token of a charge file: a number, or text float() rejects.
Number(v) == [num |-> TRUE, v |-> v]

NotANumber == [num |-> FALSE, v |-> 0]

\* The loop of from_plaintext_list over zip(molecule.atoms, line.split()):
\* each atom of the copy takes its charge, and the charges are summed.
RECURSIVE AssignCharges(_, _, _, _)
AssignCharges(st, atoms, tokens, charge) ==
  IF atoms = <<>> \/ tokens = <<>>
  THEN [kind |-> "ok", exc |-> "", store |-> st, charge |-> charge]
  ELSE IF ~Head(tokens).num
  THEN [kind |-> "raise", exc |-> "ValueError", store |-> st, charge |-> charge]
  ELSE AssignCharges([st EXCEPT ![Head(atoms)].charge = int_if_close_at(ChargeOne, Head(tokens).v)],
                     Tail(atoms), Tail(tokens), charge + Head(tokens).v)

\* MoleculeWithCharge.__init__ (the attributes guessed from the file name are
\* not represented)
MoleculeWithCharge__init__(st, charge_file_name, atoms, bonds, name, charge) ==
  LET m == Molecule__init__(st, "MoleculeWithCharge", atoms, bonds, name, charge)
  IN [m EXCEPT !.store[m.ref].charge_file_name = charge_file_name]

\* MoleculeWithCharge.from_plaintext_list on a file [name, tokens]
\* The return of from_plaintext_list after its loop: cls(file_name_full,
\* molecule.atoms, bonds=molecule.bonds, charge=int_if_close(charge),
\* name=molecule.name), unless float() raised in the loop.
PlaintextReturn(file, molecule, assigned) ==
  IF assigned.kind = "raise" THEN Raised(assigned.store, assigned.exc)
  ELSE MoleculeWithCharge__init__(assigned.store, file.name, molecule.atoms, molecule.bonds,
                                  molecule.name, int_if_close_at(ChargeOne, assigned.charge))

\* from_plaintext_list from the copy on: molecule is the copy, st the store
\* that holds it.
PlaintextOnCopy(st, file, molecule) ==
  PlaintextReturn(file, molecule, AssignCharges(st, molecule.atoms, file.tokens, 0))

\* The store a call left and the object it returned.
StoreOf(res) == res.store

ObjectOf(res) == res.store[res.ref]

PlaintextCopied(file, copied) == PlaintextOnCopy(StoreOf(copied), file, ObjectOf(copied))

from_plaintext_list(st, file, base_molecule) ==
  IF Len(file.tokens) # Len(st[base_molecule].atoms) THEN Raised(st, "InputError")
  ELSE PlaintextCopied(file, Molecule_copy(st, base_molecule))

\* A line after the " ESP charges:" header of a Gaussian log.
ChargeLine(v) == [sort |-> "charge", v |-> v]

ShortLine == [sort |-> "short", v |-> 0]

SumLine(v) == [sort |-> "sum", v |-> v]

\* The loop of from_gaussian_log over zip(molecule.atoms, lines[start_index:]):
\* it stops at the "Sum of ESP charges" line, whose last token is the total;
\* a line of three tokens or more gives its atom its charge.  total is the
\* text '0' until a sum line is met.
RECURSIVE AssignEspCharges(_, _, _, _)
AssignEspCharges(st, atoms, lines, total) ==
  IF atoms = <<>> \/ lines = <<>> THEN [store |-> st, total |-> total]
  ELSE IF Head(lines).sort = "sum" THEN [store |-> st, total |-> Head(lines).v]
  ELSE AssignEspCharges(IF Head(lines).sort = "charge"
                        THEN [st EXCEPT ![Head(atoms)].charge = int_if_close_at(ChargeOne, Head(lines).v)]
                        ELSE st,
                        Tail(atoms), Tail(lines), total)

\* The identifiers of all_sampling_schemes found in a pop= keyword.
SamplingSchemeOf(pop) ==
  CASE pop = "pop=mkuff" -> "MK-UFF"
    [] pop = "pop=chelpg" -> "CHelpG"
    [] pop = "pop=mk" -> "MK"
    [] OTHER -> ""

\* The return of from_gaussian_log after its loop: cls(file_name_full,
\* molecule.atoms, bonds=molecule.bonds, charge=int_if_close(float(total))).
GaussianReturn(file, molecule, assigned) ==
  MoleculeWithCharge__init__(assigned.store, file.name, molecule.atoms, molecule.bonds,
                             "", int_if_close_at(ChargeOne, assigned.total))

\* from_gaussian_log from the copy on.
GaussianOnCopy(st, file, molecule) ==
  GaussianReturn(file, molecule, AssignEspCharges(st, molecule.atoms, file.lines, 0))

GaussianCopied(file, copied) == GaussianOnCopy(StoreOf(copied), file, ObjectOf(copied))

\* MoleculeWithCharge.from_gaussian_log on a file [name, esp, pop, lines]: esp
\* tells whether the " ESP charges:" line is there, pop is the pop= keyword of
\* the route section ("" when there is none), lines are those from start_index.
from_gaussian_log(st, file, base_molecule) ==
  IF ~file.esp THEN Raised(st, "InputError")
  ELSE IF file.pop = "" \/ SamplingSchemeOf(file.pop) = "" THEN Raised(st, "InputError")
  ELSE GaussianCopied(file, Molecule_copy(st, base_molecule))

(***************************************************************************)
(* The charge specification: a base molecule is read from an .ac file and  *)
(* charge files are parsed against it, or against a molecule parsed        *)
(* earlier.                                                                *)
(***************************************************************************)
MaxCharged == 2

AcAtom(label, symbol, position, charge) == [label |-> label, symbol |-> symbol, position |-> position, charge |-> charge]

AcBond(a, b, order) == [a |-> a, b |-> b, order |-> order]

\* Water-like and three-atom molecules, a file without BOND lines, a file
\* whose atoms are labelled out of order, and one with a repeated label.
AcFiles ==
  {[name |-> "hydroxyl.ac", charge |-> -ChargeOne,
    atom_lines |-> <<AcAtom(1, "O", <<0, 0, 0>>, -8 * (ChargeOne \div 10)),
                     AcAtom(2, "H", <<1, 0, 0>>, -2 * (ChargeOne \div 10))>>,
    bond_lines |-> <<AcBond(1, 2, 1)>>],
   [name |-> "formyl.ac", charge |-> 0,
    atom_lines |-> <<AcAtom(1, "H", <<-1, 0, 0>>, ChargeOne \div 10),
                     AcAtom(2, "C", <<0, 0, 0>>, 3 * (ChargeOne \div 10)),
                     AcAtom(3, "O", <<1, 1, 0>>, -4 * (ChargeOne \div 10))>>,
    bond_lines |-> <<AcBond(1, 2, 1), AcBond(2, 3, 2)>>],
   [name |-> "pair.ac", charge |-> 0,
    atom_lines |-> <<AcAtom(1, "H", <<0, 0, 0>>, 0), AcAtom(2, "H", <<0, 0, 5>>, 0)>>,
    bond_lines |-> <<>>],
   [name |-> "swapped.ac", charge |-> ChargeOne - 5,
    atom_lines |-> <<AcAtom(2, "O", <<0, 0, 0>>, 0), AcAtom(1, "H", <<0, 1, 0>>, ChargeOne)>>,
    bond_lines |-> <<AcBond(1, 2, 1)>>],
   [name |-> "repeated.ac", charge |-> 0,
    atom_lines |-> <<AcAtom(1, "C", <<0, 0, 0>>, 0), AcAtom(1, "O", <<0, 0, 1>>, 0)>>,
    bond_lines |-> <<AcBond(1, 2, 3)>>]}

\* Charge tokens: a half charge, a number within the tolerance of 1, and text.
ChargeTokens == {Number(-(ChargeOne \div 2)), Number(ChargeOne - 5), NotANumber}

SeqsUpTo(S, n) == UNION {[1..k -> S] : k \in 0..n}

PlaintextFiles == {[name |-> "charges.txt", tokens |-> t] : t \in SeqsUpTo(ChargeTokens, 3) \ {<<>>}}

EspLines == {ChargeLine(4 * (ChargeOne \div 10)), ShortLine, SumLine(ChargeOne + 3)}

GaussianLogs ==
  {[name |-> "esp.log", esp |-> TRUE, pop |-> "pop=mk", lines |-> l] : l \in SeqsUpTo(EspLines, 3)}
  \cup {[name |-> "esp.log", esp |-> e, pop |-> p, lines |-> <<ChargeLine(0)>>] :
          e \in BOOLEAN, p \in {"", "pop=chelpg", "pop=full"}}

\* The molecules the calls returned (prov records each returned reference);
\* the Molecule a parser copied for itself is not among them.
Molecules == {prov[k].ref : k \in 1..Len(prov)}

Charged == {r \in Molecules : store[r].tag = "MoleculeWithCharge"}

\* A call on the heap: the objects it allocated stay in the store, also when
\* it raised after copying.
CallOnHeap(op, left, right, res) ==
  /\ store' = res.store
  /\ prov' = IF res.kind = "ok"
             THEN Append(prov, [op |-> op, left |-> left, right |-> right, ref |-> res.ref])
             ELSE prov
  /\ last' = [op |-> op, left |-> left, right |-> right,
              outcome |-> res.kind, exc |-> res.exc, msg |-> "", result |-> 0,
              value |-> res.ref]
  /\ UNCHANGED <<cubes, disk>>

FromAcFile(ac_file) ==
  /\ last.op = "init"
  /\ CallOnHeap("from_ac_file", 0, [kind |-> "ac", file |-> ac_file], from_ac_file(store, ac_file))

FromPlaintextList(file, base_molecule) ==
  /\ Running
  /\ Cardinality(Charged) < MaxCharged
  /\ CallOnHeap("from_plaintext_list", base_molecule, [kind |-> "charges", file |-> file],
                from_plaintext_list(store, file, base_molecule))

FromGaussianLog(file, base_molecule) ==
  /\ Running
  /\ Cardinality(Charged) < MaxCharged
  /\ CallOnHeap("from_gaussian_log", base_molecule, [kind |-> "log", file |-> file],
                from_gaussian_log(store, file, base_molecule))

NextCharge ==
  \/ \E ac_file \in AcFiles : FromAcFile(ac_file)
  \/ \E file \in PlaintextFiles, m \in Molecules : FromPlaintextList(file, m)
  \/ \E file \in GaussianLogs, m \in Molecules : FromGaussianLog(file, m)

SpecCharge == Init /\ [][NextCharge]_vars

(***************************************************************************)
(* shortcuts.parse_directory_for_charge.  A directory is its path and the  *)
(* files it lists, each with its path, its extension and what it holds.    *)
(***************************************************************************)
DirFile(path, ext, body) == [path |-> path, ext |-> ext, body |-> body]

\* The extensions argument: None or a list of strings.
NoExtensions == [none |-> TRUE, items |-> <<>>]

Extensions(items) == [none |-> FALSE, items |-> items]

\* extension.lower(), with a leading "." added when it has none.
NormalisedExtension(extension) ==
  CASE extension \in {"txt", ".txt", "TXT", ".TXT"} -> ".txt"
    [] extension \in {"log", ".log", "LOG", ".LOG"} -> ".log"
    [] extension \in {"ac", ".ac"} -> ".ac"
    [] OTHER -> extension

\* glob.glob(os.path.join(directory_path, '*' + extension)): the files whose
\* name ends with the extension, in the order of the listing.
RECURSIVE glob(_, _)
glob(files, extension) ==
  IF files = <<>> THEN <<>>
  ELSE (IF Head(files).ext = extension THEN <<Head(files)>> ELSE <<>>)
       \o glob(Tail(files), extension)

\* glob.glob(directory_path + '*'): every file of the directory when the path
\* ends with a separator, and the directory itself when it does not.
glob_prefix(directory) ==
  IF directory.slash THEN directory.files
  ELSE <<DirFile(directory.path, "", [name |-> directory.path])>>

\* The loop over extensions: valid_files += glob.glob(query)
RECURSIVE valid_files_of(_, _)
valid_files_of(files, extensions) ==
  IF extensions = <<>> THEN <<>>
  ELSE glob(files, NormalisedExtension(Head(extensions)))
       \o valid_files_of(files, Tail(extensions))

\* MoleculeWithCharge.from_file: the parser is chosen by the extension.
from_file(st, file, base_molecule) ==
  CASE file.ext = ".txt" -> from_plaintext_list(st, file.body, base_molecule)
    [] file.ext = ".log" -> from_gaussian_log(st, file.body, base_molecule)
    [] OTHER -> Raised(st, "InputError")

\* [MoleculeWithCharge.from_file(valid_file, base_molecule) for valid_file in valid_files]
\* The list with one more molecule in front, unless a later file raised.
Prepended(ref, rest) == IF rest.kind = "raise" THEN rest ELSE [rest EXCEPT !.refs = <<ref>> \o rest.refs]

RECURSIVE from_files(_, _, _)
\* The comprehension after its first file gave `first`: an exception ends it.
AfterFirst(first, valid_files, base_molecule) ==
  IF first.kind = "raise"
  THEN [kind |-> "raise", exc |-> first.exc, msg |-> "", store |-> first.store, refs |-> <<>>]
  ELSE Prepended(first.ref, from_files(first.store, valid_files, base_molecule))

from_files(st, valid_files, base_molecule) ==
  IF valid_files = <<>> THEN [kind |-> "ok", exc |-> "", msg |-> "", store |-> st, refs |-> <<>>]
  ELSE AfterFirst(from_file(st, Head(valid_files), base_molecule), Tail(valid_files), base_molecule)

MultipleAcFiles == "Multiple .ac files found within directory. Please specify base molecule, or delete duplicate .ac files from directory."

\* parse_directory_for_charge(directory_path, extensions, base_molecule).
\* With base_molecule None, files is the first match of '*.ac' (IndexError
\* when there is none): a path, whose len is its number of characters.
parse_directory_for_charge(st, directory, extensions, base_molecule) ==
  LET valid_files == IF extensions.none THEN glob_prefix(directory)
                     ELSE valid_files_of(directory.files, extensions.items)
      matches == glob(directory.files, ".ac")
  IN IF base_molecule = NoneRef
     THEN IF matches = <<>>
          THEN [kind |-> "raise", exc |-> "IndexError", msg |-> "", store |-> st, refs |-> <<>>]
          ELSE LET files == matches[1].path
               IN IF Len(files) > 0
                  THEN [kind |-> "raise", exc |-> "InputError", msg |-> MultipleAcFiles,
                        store |-> st, refs |-> <<>>]
                  ELSE [kind |-> "raise", exc |-> "FileNotFoundError", msg |-> "",
                        store |-> st, refs |-> <<>>]
     ELSE from_files(st, valid_files, base_molecule)

(***************************************************************************)
(* The directory specification: a directory is parsed, without a base      *)
(* molecule or with one read from an .ac file before.                      *)
(***************************************************************************)
MaxFiles == 3

AcFileNamed(name) == CHOOSE f \in AcFiles : f.name = name

\* Two .ac files, a charge list and a Gaussian log for two atoms, and a file
\* no parser takes.
FilesOnDisk ==
  {DirFile("dir/hydroxyl.ac", ".ac", AcFileNamed("hydroxyl.ac")),
   DirFile("dir/pair.ac", ".ac", AcFileNamed("pair.ac")),
   DirFile("dir/resp.txt", ".txt",
           [name |-> "dir/resp.txt", tokens |-> <<Number(-(ChargeOne \div 2)), Number(ChargeOne - 5)>>]),
   DirFile("dir/esp.log", ".log",
           [name |-> "dir/esp.log", esp |-> TRUE, pop |-> "pop=mk",
            lines |-> <<ChargeLine(ChargeOne \div 10), ChargeLine(-(ChargeOne \div 10)), SumLine(0)>>]),
   DirFile("dir/notes.dat", ".dat", [name |-> "dir/notes.dat"])}

\* The listings: up to MaxFiles files, each once, in any order.
Listings ==
  {l \in SeqsUpTo(FilesOnDisk, MaxFiles) : \A p, q \in 1..Len(l) : p # q => l[p] # l[q]}

Directories ==
  {[path |-> "dir/", slash |-> TRUE, files |-> l] : l \in Listings}
  \cup {[path |-> "dir", slash |-> FALSE, files |-> l] : l \in Listings}

ExtensionLists == {NoExtensions, Extensions(<<"txt">>), Extensions(<<".LOG", "txt">>), Extensions(<<"dat">>)}

ParseDirectoryForCharge(directory, extensions, base_molecule) ==
  /\ Running
  /\ last.op \in {"init", "from_ac_file"}
  /\ LET res == parse_directory_for_charge(store, directory, extensions, base_molecule)
     IN /\ store' = res.store
        /\ last' = [op |-> "parse_directory_for_charge", left |-> base_molecule,
                    right |-> [kind |-> "directory", directory |-> directory, extensions |-> extensions],
                    outcome |-> res.kind, exc |-> res.exc, msg |-> res.msg, result |-> 0,
                    value |-> res.refs]
  /\ UNCHANGED <<cubes, prov, disk>>

NextDirectory ==
  \/ \E ac_file \in AcFiles : FromAcFile(ac_file)
  \/ \E d \in Directories, e \in ExtensionLists, m \in Molecules \cup {NoneRef} :
       ParseDirectoryForCharge(d, e, m)

SpecDirectory == Init /\ [][NextDirectory]_vars

(***************************************************************************)
(* Properties                                                              *)
(***************************************************************************)
BinaryOps == {"add", "sub", "mul", "truediv", "pow"}
ArithOps == BinaryOps \cup {"abs"}

Grids == "chargetools.grids.Cube"

\* The left operand, the Cube operand and the result of the last call.
LeftCube == cubes[last.left]
RightCube == cubes[last.right.ref]
ResultCube == cubes[last.result]

Returned(op) == last.op = op /\ last.outcome = "ok"

\* The last call combined two Cubes of one class whose values are arrays.
TwoCubes ==
  /\ last.op \in BinaryOps
  /\ last.right.kind = "Cube"
  /\ RightCube.cls = LeftCube.cls
  /\ IsArray(store[LeftCube.values])
  /\ IsArray(store[RightCube.values])

SameShaped == store[LeftCube.values].shape = store[RightCube.values].shape

\* The values of cube c are an array of this shape holding f(m) at flat index m.
ValuesAre(c, shape, f(_)) ==
  /\ IsArray(store[c.values])
  /\ store[c.values].shape = shape
  /\ \A m \in 1..Prod(shape) : store[c.values].data[m] = f(m)

\* C1 (as claimed): every chargetools.grids Cube that exists, parsed or returned
\* by assign_new_values_to or by an arithmetic operation, has a values array
\* whose shape is tuple(n_voxels).
C1_ShapeInvariant ==
  \A i \in 1..Len(cubes) :
    cubes[i].cls = Grids =>
      /\ IsArray(store[cubes[i].values])
      /\ IsArray(store[cubes[i].n_voxels])
      /\ store[cubes[i].values].shape = store[cubes[i].n_voxels].data

\* C4 (as claimed): on chargetools.grids Cubes, c + d for same-shaped Cubes has
\* values c.values + d.values elementwise, and c + 0 and c * 1 have the values
\* of c.
C4_AddMulLaws ==
  /\ (Returned("add") /\ TwoCubes /\ LeftCube.cls = Grids /\ SameShaped) =>
       ValuesAre(ResultCube, store[LeftCube.values].shape,
                 LAMBDA m : store[LeftCube.values].data[m] + store[RightCube.values].data[m])
  /\ (/\ \/ Returned("add") /\ last.right = [kind |-> "scalar", v |-> 0]
         \/ Returned("mul") /\ last.right = [kind |-> "scalar", v |-> 1]
      /\ LeftCube.cls = Grids) =>
       ValuesAre(ResultCube, store[LeftCube.values].shape,
                 LAMBDA m : store[LeftCube.values].data[m])

\* C5 (as claimed): the Cube a binary operator or abs returns on a
\* chargetools.grids Cube has the from_file, field_type, axes, molecule,
\* origins, unit_vectors and n_voxels of the left operand.
C5_MetadataPreserved ==
  (last.op \in ArithOps /\ last.outcome = "ok" /\ LeftCube.cls = Grids) =>
    /\ store[ResultCube.from_file] = store[LeftCube.from_file]
    /\ store[ResultCube.field_type] = store[LeftCube.field_type]
    /\ store[ResultCube.axes] = store[LeftCube.axes]
    /\ store[ResultCube.molecule] = store[LeftCube.molecule]
    /\ store[ResultCube.origins] = store[LeftCube.origins]
    /\ store[ResultCube.unit_vectors] = store[LeftCube.unit_vectors]
    /\ store[ResultCube.n_voxels] = store[LeftCube.n_voxels]

\* C6: each of +, -, *, / and ** applied to two Cubes whose value arrays have
\* different shapes raises with the message "Cube files must have the same
\* coordinates to be summed." and returns no Cube.
C6_ShapeMismatchRejected ==
  (TwoCubes /\ ~SameShaped) =>
    /\ last.outcome = "raise"
    /\ last.msg = ShapeMsg
    /\ last.result = 0

\* C6 witness: ** was applied to two Cubes of different shapes, and raised.
C6_Witness ==
  /\ last.op = "pow"
  /\ TwoCubes
  /\ ~SameShaped
  /\ last.outcome = "raise"

\* The divisor of the last call at flat index m of the left operand's values.
Divisor(m) ==
  CASE last.right.kind = "scalar" -> last.right.v
    [] last.right.kind = "ndarray" -> last.right.arr.data[m]
    [] last.right.kind = "Cube" -> store[RightCube.values].data[m]

\* The right operand is a scalar, an array of the values' shape or a Cube of
\* the values' shape, and holds no zero.
ElementwiseDivisor ==
  /\ IsArray(store[LeftCube.values])
  /\ \/ last.right.kind = "scalar"
     \/ last.right.kind = "ndarray"
          /\ last.right.arr.shape = store[LeftCube.values].shape
     \/ TwoCubes /\ SameShaped
  /\ \A m \in 1..Len(store[LeftCube.values].data) : Divisor(m) # 0

\* C7 (as claimed): c / x returns a Cube whose values are c.values divided
\* elementwise by x: every element times its divisor is the element of c.
C7_DivisionElementwise ==
  (last.op = "truediv" /\ ElementwiseDivisor) =>
    /\ last.outcome = "ok"
    /\ IsArray(store[ResultCube.values])
    /\ store[ResultCube.values].shape = store[LeftCube.values].shape
    /\ \A m \in 1..Len(store[LeftCube.values].data) :
         store[ResultCube.values].data[m] * Divisor(m) = store[LeftCube.values].data[m]

\* C8: an arithmetic operation, whether it returns or raises, leaves every
\* existing Cube (all its fields) and every existing object (the value arrays,
\* the axes, the molecule, the grid vectors) as it was.
C8_ValueSemantics ==
  [][last'.op \in ArithOps =>
       /\ \A i \in 1..Len(cubes) : cubes'[i] = cubes[i]
       /\ \A r \in 1..Len(store) : store'[r] = store[r]]_vars

\* C8 witness: a subtraction of one Cube from another returned.
C8_Witness ==
  /\ Returned("sub")
  /\ last.right.kind = "Cube"
  /\ last.right.ref # last.left

\* The Cube abs was applied to is the result of c - c.
AbsOfSelfDifference ==
  /\ last.op = "abs"
  /\ prov[last.left].op = "sub"
  /\ prov[last.left].right = [kind |-> "Cube", ref |-> prov[last.left].left]

\* C9: c - d for same-shaped Cubes returns a Cube whose values are
\* c.values - d.values elementwise; abs(c) returns a Cube whose values are
\* |c.values|; abs(c - c) is 0 at every voxel.
C9_SubAbs ==
  /\ (last.op = "sub" /\ TwoCubes /\ SameShaped) =>
       /\ last.outcome = "ok"
       /\ ValuesAre(ResultCube, store[LeftCube.values].shape,
                    LAMBDA m : store[LeftCube.values].data[m] - store[RightCube.values].data[m])
  /\ (last.op = "abs" /\ IsArray(store[LeftCube.values])) =>
       /\ last.outcome = "ok"
       /\ ValuesAre(ResultCube, store[LeftCube.values].shape,
                    LAMBDA m : Abs(store[LeftCube.values].data[m]))
  /\ AbsOfSelfDifference =>
       /\ last.outcome = "ok"
       /\ ValuesAre(ResultCube, store[LeftCube.values].shape, LAMBDA m : 0)

\* C9 witness: abs was applied to c - c for a parsed Cube c with a negative
\* value, and returned.
C9_Witness ==
  /\ AbsOfSelfDifference
  /\ last.outcome = "ok"
  /\ \E m \in 1..Len(store[cubes[prov[last.left].left].values].data) :
       store[cubes[prov[last.left].left].values].data[m] < 0

\* The axes and the voxel counts (nx, ny, nz) of the Cube the last call read.
LeftAxes == store[LeftCube.axes].arrays
LeftNVoxels == store[LeftCube.n_voxels].data

\* The grid indices: (i, j, k) with 0 <= i < nx, 0 <= j < ny, 0 <= k < nz.
VoxelIndices(nv) == {<<i, j, k>> : i \in 0..(nv[1] - 1), j \in 0..(nv[2] - 1), k \in 0..(nv[3] - 1)}

\* The coordinate of voxel (i, j, k): (axes.x[i], axes.y[j], axes.z[k]).
CoordinateOf(ax, idx) == <<ax[1][idx[1] + 1], ax[2][idx[2] + 1], ax[3][idx[3] + 1]>>

\* C2 (as claimed): flat_coordinates has one row per voxel, and the row at
\* flat index m = (i*ny + j)*nz + k is (axes.x[i], axes.y[j], axes.z[k]), the
\* coordinate of the voxel holding values.flatten()[m].
C2_FlatCoordinatesAligned ==
  Returned("flat_coordinates") =>
    /\ Len(last.value) = Prod(LeftNVoxels)
    /\ \A idx \in VoxelIndices(LeftNVoxels) :
         last.value[(idx[1] * LeftNVoxels[2] + idx[2]) * LeftNVoxels[3] + idx[3] + 1]
           = CoordinateOf(LeftAxes, idx)

\* C3 (as claimed): meshgrid returns three arrays of shape (nx, ny, nz), the
\* shape of values, and array t holds at (i, j, k) the coordinate of axis t.
C3_MeshgridShape ==
  Returned("meshgrid") =>
    /\ Len(last.value) = 3
    /\ \A t \in 1..3 :
         /\ last.value[t].shape = LeftNVoxels
         /\ last.value[t].shape = store[LeftCube.values].shape
         /\ \A idx \in VoxelIndices(LeftNVoxels) :
              last.value[t].data[Ravel(idx, LeftNVoxels) + 1] = CoordinateOf(LeftAxes, idx)[t]

\* The potential of the charged molecule mol at point p: the sum over its
\* atoms of charge / distance.
PotentialAt(mol, p) ==
  RealSum([a \in 1..Len(mol.atoms) |->
             Quotient(mol.atoms[a].charge, Dist2(p, mol.atoms[a].position))])

\* The template's molecule has the atoms of the charged molecule, at the same
\* positions.
SamePositions(mol, template) ==
  /\ Len(store[template.molecule].atoms) = Len(mol.atoms)
  /\ \A a \in 1..Len(mol.atoms) :
       store[template.molecule].atoms[a].position = mol.atoms[a].position

\* C10 (as claimed): reproduce_cube returns a Cube of shape n_voxels whose
\* value at (i, j, k) is the sum over the atoms of q / distance from
\* (x[i], y[j], z[k]).
C10_PotentialPerVoxel ==
  (Returned("reproduce_cube") /\ SamePositions(last.right.mol, LeftCube)) =>
    ValuesAre(ResultCube, LeftNVoxels,
              LAMBDA m : PotentialAt(last.right.mol,
                                     CoordinateOf(LeftAxes, Unravel(m - 1, LeftNVoxels))))

\* C11 (as claimed): error_cube(ref) returns a Cube whose values are a numeric
\* array of shape ref.n_voxels, equal elementwise to
\* reproduce_cube(ref).values - ref.values.
C11_ErrorFieldAdditivity ==
  Returned("error_cube") =>
    LET r == reproduce_cube(store, last.right.mol, LeftCube)
        reproduced == r.store[r.cube.values]
        ref == store[LeftCube.values]
    IN ValuesAre(ResultCube, LeftNVoxels,
                 LAMBDA m : RealElem("sub", Lift(reproduced, reproduced.data[m]),
                                            Lift(ref, ref.data[m])))

\* C12 (as claimed): the values reproduce_cube returns are the potential of the
\* charged molecule it is called on, charges and positions, at the template's
\* flat coordinates; the molecule of the template plays no part.
C12_UsesOwnPositions ==
  Returned("reproduce_cube") =>
    LET fc == flat_coordinates(store, LeftCube).value
    IN ValuesAre(ResultCube, LeftNVoxels,
                 LAMBDA m : PotentialAt(last.right.mol, fc[m]))

\* The atoms of the Cube the last call read, its flat coordinates, and the
\* square of the distance from flat coordinate m to atom a.
LeftAtoms == store[LeftCube.molecule].atoms
LeftFlat == flat_coordinates(store, LeftCube).value
LeftDist2(m, a) == Dist2(LeftFlat[m], LeftAtoms[a].position)

\* The last call was this closest-atom method, without selectors.
CalledBare(op) == last.op = op /\ last.right.descriptors = <<>>

\* C13: points_labelled_by_closest_atom() returns an array of shape n_voxels
\* whose entry at flat index m is the atom of molecule.atoms nearest to
\* flat_coordinates[m], the earliest such atom of molecule.atoms when several
\* are nearest; the result is a function of the Cube alone.
C13_NearestAtomFirstTie ==
  CalledBare("points_labelled_by_closest_atom") =>
    /\ last.outcome = "ok"
    /\ last.value.shape = LeftNVoxels
    /\ \A m \in 1..Prod(LeftNVoxels) :
         \E a \in 1..Len(LeftAtoms) :
           /\ last.value.data[m] = LeftAtoms[a]
           /\ \A b \in 1..Len(LeftAtoms) : LeftDist2(m, a) <= LeftDist2(m, b)
           /\ \A b \in 1..(a - 1) : LeftDist2(m, b) > LeftDist2(m, a)

\* C13 witness: the call returned for a grid with a point at the same distance
\* from two atoms.
C13_Witness ==
  /\ CalledBare("points_labelled_by_closest_atom")
  /\ last.outcome = "ok"
  /\ \E m \in 1..Prod(LeftNVoxels) :
       /\ Len(LeftAtoms) = 2
       /\ LeftDist2(m, 1) = LeftDist2(m, 2)

\* C14: distance_to_closest_atom() returns, for every voxel, the distance
\* between the voxel's flat coordinate and the atom that
\* points_labelled_by_closest_atom() returns for that voxel; both results have
\* shape n_voxels.
C14_DistanceMatchesLabel ==
  CalledBare("distance_to_closest_atom") =>
    LET labelled == points_labelled_by_closest_atom(store, LeftCube, <<>>)
    IN /\ last.outcome = "ok"
       /\ labelled.kind = "ok"
       /\ last.value.shape = LeftNVoxels
       /\ labelled.value.shape = LeftNVoxels
       /\ \A m \in 1..Prod(LeftNVoxels) :
            last.value.data[m] = Root(Dist2(LeftFlat[m], labelled.value.data[m].position))

\* C14 witness: the call returned for a grid with a point whose nearest atom is
\* not the first atom of the molecule.
C14_Witness ==
  /\ CalledBare("distance_to_closest_atom")
  /\ last.outcome = "ok"
  /\ \E m \in 1..Prod(LeftNVoxels) :
       /\ Len(LeftAtoms) = 2
       /\ LeftDist2(m, 2) < LeftDist2(m, 1)

\* The atoms of the Cube's molecule that the selectors of the last call name
\* (a label selects the atom of that label), in molecule order.
SelectedAtoms == SelectSeq(LeftAtoms, LAMBDA atom : \E k \in 1..Len(last.right.descriptors) : atom.label = last.right.descriptors[k])

\* C15 (as claimed): called with selectors that name atoms of the molecule,
\* points_labelled_by_closest_atom returns per voxel the nearest of the
\* selected atoms and distance_to_closest_atom the distance to it.
C15_SubsetRestriction ==
  (/\ last.op \in {"points_labelled_by_closest_atom", "distance_to_closest_atom"}
   /\ last.right.descriptors # <<>>
   /\ SelectedAtoms # <<>>) =>
    /\ last.outcome = "ok"
    /\ last.value.shape = LeftNVoxels
    /\ \A m \in 1..Prod(LeftNVoxels) :
         \E a \in 1..Len(SelectedAtoms) :
           /\ \A b \in 1..Len(SelectedAtoms) :
                Dist2(LeftFlat[m], SelectedAtoms[a].position) <= Dist2(LeftFlat[m], SelectedAtoms[b].position)
           /\ last.value.data[m] =
                IF last.op = "points_labelled_by_closest_atom"
                THEN SelectedAtoms[a]
                ELSE Root(Dist2(LeftFlat[m], SelectedAtoms[a].position))

\* The file the last from_cube_file call read: an input file, or the text a
\* save wrote.
IsParse == last.op = "from_cube_file" /\ last.right.kind \in {"file", "written"}

WrittenText == ReadText(FileOne, last.right.path, disk[last.right.path].lines)

Readable == last.right.kind = "file" \/ WrittenText.kind = "ok"

ParsedFile == IF last.right.kind = "file" THEN last.right.file ELSE WrittenText.file

\* The components of a header row with magnitude >= 0.01.
Significant(vec) == {e \in DOMAIN vec : 100 * Abs(vec[e]) >= FileOne}

\* Each of the three header rows has exactly one such component.
AxisAligned(file) ==
  /\ Len(file.rows) = 3
  /\ \A d \in 1..3 : Cardinality(Significant(file.rows[d].vec)) = 1

StepOf(file, d) ==
  file.rows[d].vec[CHOOSE e \in DOMAIN file.rows[d].vec : e \in Significant(file.rows[d].vec)]

\* C16: when each of the three axis header rows has exactly one component of
\* magnitude >= 0.01, from_cube_file produces exactly three axes with
\* len(axes[d]) = n_voxels[d] and axes[d][i] = origin[d] + i * step[d] for
\* 0 <= i < n_voxels[d], step[d] being the non-near-zero component of row d.
C16_AxisDerivation ==
  (IsParse /\ last.outcome = "ok" /\ Readable /\ AxisAligned(ParsedFile)) =>
    LET axes == store[ResultCube.axes]
    IN /\ axes.tag = "OrderedDict"
       /\ Len(axes.arrays) = 3
       /\ \A d \in 1..3 :
            /\ Len(axes.arrays[d]) = ParsedFile.rows[d].n
            /\ \A i \in 0..(ParsedFile.rows[d].n - 1) :
                 axes.arrays[d][i + 1] = ParsedFile.origins[d] + i * StepOf(ParsedFile, d)

\* C16 happens: a file was parsed whose rows are axis-aligned with a step that
\* is not on the diagonal and a component below 0.01 beside another, the
\* origin is not zero, and an axis has more than one point.
C16_Witness ==
  /\ IsParse /\ last.outcome = "ok" /\ last.right.kind = "file"
  /\ AxisAligned(ParsedFile)
  /\ Significant(ParsedFile.rows[1].vec) = {2}
  /\ \E e \in 1..3 : ParsedFile.rows[3].vec[e] # 0 /\ e \notin Significant(ParsedFile.rows[3].vec)
  /\ ParsedFile.origins[1] # 0
  /\ ParsedFile.rows[1].n > 1
  /\ Len(store[ResultCube.axes].arrays[1]) > 1

\* C17 (as claimed): from_cube_file fails, returning no Cube, whenever a
\* header row has more than one or fewer than one component of magnitude
\* >= 0.01; it never returns a Cube with fewer than three axes or with a step
\* taken from another row's component.
C17_NonAlignedRejected ==
  (IsParse /\ Readable) =>
    /\ ~AxisAligned(ParsedFile) => (last.outcome = "raise" /\ last.result = 0)
    /\ last.outcome = "ok" =>
         /\ Len(store[ResultCube.axes].arrays) = 3
         /\ Len(store[ResultCube.unit_vectors].data) = 3
         /\ \A d \in 1..3 :
              \E e \in DOMAIN ParsedFile.rows[d].vec :
                store[ResultCube.unit_vectors].data[d] = ParsedFile.rows[d].vec[e]

\* The voxel counts the header of a file declares.
Declared(file) == [r \in 1..Len(file.rows) |-> file.rows[r].n]

FullParse == IsParse /\ Readable /\ ~last.right.header_only

\* C18: from_cube_file without header_only raises and returns no Cube whenever
\* the number of value tokens after the atom records differs from nx*ny*nz;
\* a Cube it returns holds exactly the tokens of the file, in order.
C18_BlockSizeChecked ==
  FullParse =>
    /\ Len(ParsedFile.tokens) # Prod(Declared(ParsedFile)) =>
         /\ last.outcome = "raise"
         /\ last.exc = "ValueError"
         /\ last.result = 0
         /\ \A i \in 1..Len(cubes) : prov[i].right # last.right
    /\ last.outcome = "ok" =>
         /\ store[ResultCube.values] = NdArray(Declared(ParsedFile), ParsedFile.tokens)
         /\ Len(ParsedFile.tokens) = Prod(Declared(ParsedFile))

\* C18 happens: a full parse of a file with one token too many was refused.
C18_Witness ==
  /\ FullParse
  /\ Len(ParsedFile.tokens) = Prod(Declared(ParsedFile)) + 1
  /\ last.outcome = "raise"
  /\ last.exc = "ValueError"

\* The file with a value block of as many tokens as its header declares.
WithFittingBlock(file) ==
  [file EXCEPT !.tokens = [m \in 1..Prod(Declared(file)) |-> ValuePool[((m - 1) % Len(ValuePool)) + 1]]]

\* A full parse of the file the last call read, by the same class, on the heap
\* before the call.
FullParseOfSame ==
  from_cube_file_at(FileOne, <<>>, last.right.cls, WithFittingBlock(ParsedFile), FALSE, <<>>)

HeaderOnlyParse == IsParse /\ Readable /\ last.right.header_only

\* C19: from_cube_file(header_only=True) returns a Cube whose values array has
\* the shape declared in the header and whose origins, unit_vectors, n_voxels,
\* axes and molecule equal those of a full parse of the same file; it succeeds
\* whatever the number of tokens in the value block.
C19_HeaderOnly ==
  HeaderOnlyParse =>
    /\ last.outcome = "ok"
    /\ IsArray(store[ResultCube.values])
    /\ store[ResultCube.values].shape = Declared(ParsedFile)
    /\ Len(store[ResultCube.values].data) = Prod(Declared(ParsedFile))
    /\ FullParseOfSame.kind = "ok"
    /\ LET full == FullParseOfSame
       IN /\ store[ResultCube.origins] = full.store[full.cube.origins]
          /\ store[ResultCube.unit_vectors] = full.store[full.cube.unit_vectors]
          /\ store[ResultCube.n_voxels] = full.store[full.cube.n_voxels]
          /\ store[ResultCube.axes] = full.store[full.cube.axes]
          /\ store[ResultCube.molecule] = full.store[full.cube.molecule]

\* C19 happens: a header-only parse returned a Cube for a file without a
\* value block.
C19_Witness ==
  /\ HeaderOnlyParse
  /\ last.right.kind = "file"
  /\ ParsedFile.tokens = <<>>
  /\ Prod(Declared(ParsedFile)) > 0
  /\ last.outcome = "ok"
  /\ store[ResultCube.values].shape = Declared(ParsedFile)
  /\ store[ResultCube.origins].data = ParsedFile.origins

\* The last call parsed in full the text that Cube LeftCube saved.
ParsedSaved == IsParse /\ last.right.kind = "written" /\ ~last.right.header_only

\* C20 (as claimed): from_cube_file on the path written by c.save yields a
\* Cube whose values equal those of c to the precision of the exponential
\* format written, in the same voxel order, and whose origins, unit_vectors
\* and n_voxels equal those of c exactly.
C20_RoundTrip ==
  ParsedSaved =>
    /\ last.outcome = "ok"
    /\ ValuesAre(ResultCube, store[LeftCube.values].shape,
                 LAMBDA m : Text5E(store[LeftCube.values].data[m]))
    /\ store[ResultCube.origins] = store[LeftCube.origins]
    /\ store[ResultCube.unit_vectors] = store[LeftCube.unit_vectors]
    /\ store[ResultCube.n_voxels] = store[LeftCube.n_voxels]

\* The value lines of the text at path, written by Cube c.
AxisLineCount(c) == MinOf({Len(store[c.unit_vectors].data), Len(store[c.n_voxels].data)})

ValueLinesAt(path) ==
  LET c == cubes[disk[path].writer]
      first == 2 + AxisLineCount(c) + Len(store[c.molecule].atoms)
  IN Slice(disk[path].lines, first, Len(disk[path].lines))

RECURSIVE ValuesBefore(_, _)
\* The number of values on the lines before line l.
ValuesBefore(lines, l) == IF l <= 1 THEN 0 ELSE ValuesBefore(lines, l - 1) + Len(lines[l - 1])

\* C21: in the file written by Cube.save every line of the value block holds
\* between 1 and 6 values, no line holds values of two different rows along
\* the last axis, the last value of every such row is followed by a line
\* break, and the values appear in values.flatten() order.
C21_ValueBlockLayout ==
  \A path \in DOMAIN disk :
    LET c == cubes[disk[path].writer]
        values == store[c.values].data
        nz == store[c.n_voxels].data[Len(store[c.n_voxels].data)]
        vl == ValueLinesAt(path)
    IN /\ \A l \in 1..Len(vl) : Len(vl[l]) \in 1..6
       /\ Flatten(vl) = [m \in 1..Len(values) |-> FloatToken(Text5E(values[m]))]
       /\ \A l \in 1..Len(vl) :
            ValuesBefore(vl, l) \div nz = (ValuesBefore(vl, l) + Len(vl[l]) - 1) \div nz
       /\ \A m \in 1..Len(values) :
            m % nz = 0 => \E l \in 1..Len(vl) : ValuesBefore(vl, l) + Len(vl[l]) = m
       /\ disk[path].unterminated = <<>>

\* C21 happens: a Cube whose rows along z hold seven values was saved, and the
\* first row is written on a line of six values and a line of one.
C21_Witness ==
  \E path \in DOMAIN disk :
    /\ store[cubes[disk[path].writer].n_voxels].data = <<1, 1, 7>>
    /\ Len(ValueLinesAt(path)) = 2
    /\ Len(ValueLinesAt(path)[1]) = 6
    /\ Len(ValueLinesAt(path)[2]) = 1

\* The last call was filter_values with a boolean mask of the values' shape,
\* or with a callable.
MaskedCall ==
  /\ last.op = "filter_values"
  /\ IsArray(store[LeftCube.values])
  /\ \/ last.right.condition.kind = "callable"
     \/ /\ last.right.condition.kind = "ndarray"
        /\ last.right.condition.dtype = "bool"
        /\ last.right.condition.arr.shape = store[LeftCube.values].shape

\* The mask of such a call, at flat index m.
MaskAt(m) ==
  IF last.right.condition.kind = "callable"
  THEN CallResult(last.right.condition.f, store[LeftCube.values].data[m]) = 1
  ELSE last.right.condition.arr.data[m] = 1

UnsupportedCondition ==
  /\ last.right.condition.kind # "callable"
  /\ ~(last.right.condition.kind = "ndarray" /\ last.right.condition.dtype = "bool")

\* C23 (as claimed): chargetools.grids.Cube.filter_values fails with
\* InputError, returning no array, whenever the condition is neither a
\* callable nor a boolean numpy array.
C23_ConditionRejected ==
  (last.op = "filter_values" /\ LeftCube.cls = Grids /\ UnsupportedCondition) =>
    /\ last.outcome = "raise"
    /\ last.exc = "InputError"
    /\ last.value = <<>>

SupportedOperand ==
  \/ last.right.kind = "scalar"
  \/ /\ last.right.kind = "ndarray"
     /\ last.right.arr.shape = store[LeftCube.values].shape
  \/ /\ last.right.kind = "Cube"
     /\ RightCube.cls = LeftCube.cls
     /\ IsArray(store[RightCube.values])
     /\ store[RightCube.values].shape = store[LeftCube.values].shape

\* C25 (as claimed): each of +, -, *, / and ** on a chargetools.grids Cube
\* raises and returns no Cube when the right operand is not a scalar, not a
\* raw array whose shape equals values.shape and not a same-shaped Cube; a
\* raw array of a different, broadcastable shape is not broadcast.
C25_UnsupportedRejected ==
  (/\ last.op \in BinaryOps
   /\ LeftCube.cls = Grids
   /\ IsArray(store[LeftCube.values])
   /\ ~SupportedOperand) =>
    /\ last.outcome = "raise"
    /\ last.result = 0

\* C26: for every Cube c and every right operand x (scalar, array, Cube of
\* equal or different shape, unsupported type), c / x has the outcome of
\* c * x: the same error, or a result Cube with the same field contents.
C26_DivisionIsMultiplication ==
  [][last'.op = "truediv" =>
       LET product == __mul__(store, cubes[last'.left], Resolve(last'.right))
       IN IF product.kind = "raise"
          THEN /\ last'.outcome = "raise"
               /\ last'.exc = product.exc
               /\ last'.msg = product.msg
               /\ cubes' = cubes
               /\ store' = store
          ELSE /\ last'.outcome = "ok"
               /\ cubes' = Append(cubes, product.cube)
               /\ store' = product.store
               /\ last'.result = Len(cubes) + 1]_vars

\* C26 happens: a division of a charges.cube Cube by an array that holds a 2
\* returned a Cube whose values differ from those of the dividend.
C26_Witness ==
  /\ last.op = "truediv"
  /\ last.outcome = "ok"
  /\ last.right.kind = "ndarray"
  /\ \E m \in 1..Len(last.right.arr.data) : last.right.arr.data[m] = 2
  /\ LeftCube.cls = "charges.cube.Cube"
  /\ \E m \in 1..Len(store[ResultCube.values].data) :
       store[ResultCube.values].data[m] # store[LeftCube.values].data[m]

\* The atoms one bond away from an atom of the set S, with S.
Neighbourhood(bonds, S) ==
  S \cup {x \in 1..MaxAtoms :
            \E k \in 1..Len(bonds) :
              (bonds[k][1] = x /\ bonds[k][2] \in S) \/ (bonds[k][2] = x /\ bonds[k][1] \in S)}

RECURSIVE Within(_, _, _)
\* The atoms at most n bonds away from atom a.
Within(bonds, a, n) == IF n = 0 THEN {a} ELSE Neighbourhood(bonds, Within(bonds, a, n - 1))

Connected(bonds, a, b) == b \in Within(bonds, a, MaxAtoms)

\* The number of bonds on a shortest path between two connected atoms.
ShortestPath(bonds, a, b) ==
  CHOOSE n \in 0..MaxAtoms : b \in Within(bonds, a, n) /\ \A m \in 0..(n - 1) : b \notin Within(bonds, a, m)

\* C27 (as claimed): number_connections(atom_a, atom_b) returns the number of
\* bonds on a shortest bond path between two atoms (1 when they share a
\* bond), for every bond graph, infinity when no path exists, and its
\* recursion is at most len(bonds) deep.
C27_ShortestBondPath ==
  (last.op = "number_connections" /\ last.right.atom_a # last.right.atom_b) =>
    /\ last.value.depth <= Len(last.right.bonds)
    /\ IF Connected(last.right.bonds, last.right.atom_a, last.right.atom_b)
       THEN last.value.kind = "int"
            /\ last.value.n = ShortestPath(last.right.bonds, last.right.atom_a, last.right.atom_b)
       ELSE last.value.kind = "inf"

\* The text has the layout of a cube file for Cube c: two comment lines, the
\* atom-count and origin line, three axis lines, one line per atom, and the
\* value block.
CubeFileLayout(text, c) ==
  LET atoms == store[c.molecule].atoms
      n_voxels == store[c.n_voxels].data
      values == store[c.values].data
      lines == text.lines
      block == Slice(lines, 5 + Len(atoms), Len(lines))
  IN /\ Len(text.comments) = 2
     /\ Len(lines) >= 4 + Len(atoms)
     /\ Len(lines[1]) = 5
     /\ lines[1][1] = IntToken(FileOne, Len(atoms))
     /\ \A r \in 1..3 :
          /\ lines[1 + r][1] = IntToken(FileOne, n_voxels[r])
          /\ \A e \in 2..Len(lines[1 + r]) : ~lines[1 + r][e].int
     /\ \A a \in 1..Len(atoms) :
          /\ Len(lines[4 + a]) = 5
          /\ lines[4 + a][1] = IntToken(FileOne, atoms[a].atomic_number)
     /\ \A l \in 1..Len(block) : \A e \in 1..Len(block[l]) : ~block[l][e].int
     /\ Len(Flatten(block)) = Len(values)

\* C28 (as claimed): when file_path exists, save raises before writing
\* anything and the file's contents are unchanged; when it does not, save
\* creates it with the two comment lines, the atom-count and origin line,
\* three axis lines, one line per atom and the value block, in that order.
C28_SaveNeverOverwrites ==
  [][(last'.op = "save" /\ cubes[last'.left].cls = Grids) =>
       IF last'.right.path \in DOMAIN disk
       THEN /\ last'.outcome = "raise"
            /\ disk' = disk
       ELSE /\ last'.outcome = "ok"
            /\ DOMAIN disk' = DOMAIN disk \cup {last'.right.path}
            /\ \A q \in DOMAIN disk : disk'[q] = disk[q]
            /\ CubeFileLayout(disk'[last'.right.path], cubes[last'.left])]_vars

ChargeParsers == {"from_plaintext_list", "from_gaussian_log"}

RefsOf(refs) == {refs[k] : k \in 1..Len(refs)}

\* Every atom of the molecule, and its position array, is in st2 what it is
\* in st1.
AtomsUnchanged(st1, st2, molecule) ==
  /\ st2[molecule] = st1[molecule]
  /\ \A a \in RefsOf(st1[molecule].atoms) :
       /\ st2[a] = st1[a]
       /\ st2[st1[a].position] = st1[st1[a].position]

\* The atoms and bonds of `returned` are other objects than those of `base`,
\* and the k-th bond of `returned` refers to atoms of `returned` that carry
\* the labels of the atoms of the k-th bond of `base`.
CopiedFrom(st, returned, base) ==
  /\ RefsOf(st[returned].atoms) \cap RefsOf(st[base].atoms) = {}
  /\ RefsOf(st[returned].bonds.refs) \cap RefsOf(st[base].bonds.refs) = {}
  /\ \A k \in 1..Len(st[returned].bonds.refs) :
       LET copied == st[st[returned].bonds.refs[k]].bonding_atoms
           original == st[st[base].bonds.refs[k]].bonding_atoms
       IN /\ Len(copied) = Len(original)
          /\ \A e \in 1..Len(copied) :
               /\ copied[e] \in RefsOf(st[returned].atoms)
               /\ st[copied[e]].label = st[original[e]].label

\* C29: from_plaintext_list and from_gaussian_log leave every atom of
\* base_molecule unchanged (label, atomic number, charge, position); the atoms
\* and bonds of the returned molecule are distinct objects from
\* base_molecule's, and each copied bond refers to the copied atoms of the
\* same labels.
C29_ChargesOnCopy ==
  [][last'.op \in ChargeParsers =>
       /\ AtomsUnchanged(store, store', last'.left)
       /\ last'.outcome = "ok" =>
            /\ Len(store'[last'.value].atoms) = Len(store[last'.left].atoms)
            /\ Len(store'[last'.value].bonds.refs) = Len(store[last'.left].bonds.refs)
            /\ CopiedFrom(store', last'.value, last'.left)]_vars

\* C29 witness: a plaintext list was parsed against a bonded molecule that
\* from_gaussian_log returned, and gave an atom another charge than the base
\* molecule's atom has.
C29_Witness ==
  /\ last.op = "from_plaintext_list"
  /\ last.outcome = "ok"
  /\ store[last.left].charge_file_name = "esp.log"
  /\ store[last.value].bonds.refs # <<>>
  /\ \E k \in 1..Len(store[last.value].atoms) :
       store[store[last.value].atoms[k]].charge # store[store[last.left].atoms[k]].charge

\* What the call returns when the base molecule is read from the one .ac file
\* of the directory and every matched charge file is parsed against it.
WithBaseFrom(st, ac, directory, extensions) ==
  LET base == from_ac_file(st, ac.body)
  IN from_files(base.store,
                IF extensions.none THEN glob_prefix(directory)
                ELSE valid_files_of(directory.files, extensions.items),
                base.ref)

\* C30 (as claimed): with base_molecule=None and exactly one .ac file in the
\* directory, the base molecule is built from that file and the list holds
\* one MoleculeWithCharge per matched charge file; InputError 'Multiple .ac
\* files found' is raised only when there is more than one .ac file.
C30_SingleAcFile ==
  [][(last'.op = "parse_directory_for_charge" /\ last'.left = NoneRef) =>
       LET directory == last'.right.directory
           acs == glob(directory.files, ".ac")
       IN /\ Len(acs) = 1 =>
               LET expected == WithBaseFrom(store, acs[1], directory, last'.right.extensions)
               IN /\ last'.outcome = expected.kind
                  /\ expected.kind = "ok" =>
                       /\ store' = expected.store
                       /\ last'.value = expected.refs
          /\ (last'.exc = "InputError" /\ last'.msg = MultipleAcFiles) => Len(acs) > 1]_vars

====
